---- MODULE Spec2Model ----
(***************************************************************************)
(* Vote admission and replication of the voting coordinator                *)
(* (src/server.py, class VotingServer) and of its follower replicas        *)
(* (src/replica.py, class ReplicaServer).                                  *)
(*                                                                         *)
(* Threads of the coordinator process:                                     *)
(*   - the XML-RPC thread (SimpleXMLRPCServer serves one request at a      *)
(*     time): variable rpc;                                                *)
(*   - the queue processor _process_vote_queue: variable sched;            *)
(*   - one thread per dispatched vote, _process_single_vote: the elements  *)
(*     of tasks, in the order in which the queue processor started them.   *)
(* Every step of a thread is one access to shared state under the lock the *)
(* code takes for it; a lock that is held over several steps (db_lock over *)
(* the replication call, the queue and in-progress locks over the sleeps   *)
(* of the queue processor) is derived from the position of its holder.     *)
(***************************************************************************)
EXTENDS Integers, Sequences, FiniteSets, TLC

VARIABLES lamport_clock, clock_ret, voters_db, voting_active, voting_deadline,
          results_published, active_votes, vote_queue, vote_counter,
          in_progress_votes, active_sessions, replicas, sched, tasks, rpc,
          commit_order

vars == <<lamport_clock, clock_ret, voters_db, voting_active, voting_deadline,
          results_published, active_votes, vote_queue, vote_counter,
          in_progress_votes, active_sessions, replicas, sched, tasks, rpc,
          commit_order>>

----------------------------------------------------------------------------
(* Values *)

\* Python's None for a string-valued field
None == "None"

\* an optional value: <<>> is None, <<x>> is x
Nothing == << >>

Some(x) == <<x>>

\* truth value of an optional number, as in `if self.voting_deadline and ...`
Truthy(opt) == opt # Nothing /\ opt[1] # 0

Max(a, b) == IF a >= b THEN a ELSE b

SeqToSet(s) == {s[i] : i \in 1..Len(s)}

----------------------------------------------------------------------------
(* Program constants *)

max_concurrent_votes == 5

InitialNames == <<"Alice", "Bob", "Charlie", "Diana", "Eve",
                  "Frank", "Grace", "Henry", "Ivy", "Jack">>

InitialVoters == [i \in 1..Len(InitialNames) |->
                    [id |-> i, name |-> InitialNames[i], has_voted |-> FALSE, vote |-> None]]

candidates == <<"Candidate A", "Candidate B", "Candidate C", "Candidate D", "Candidate E",
                "Candidate F", "Candidate G", "Candidate H", "Candidate I", "Candidate J">>

\* the follower replicas, one per entry of replica_ports
replica_ports == <<8001, 8002>>

Replicas == SeqToSet(replica_ports)

----------------------------------------------------------------------------
(* Bounds of the checked instances *)

\* accepted Vote submissions
MaxVotes == 2

\* cap of the insertion counter vote_counter (submissions plus requeues)
MaxCounter == 3

\* RPC calls are issued while the logical clock is below this value
MaxClock == 5

----------------------------------------------------------------------------
(* Logical clock *)

\* a slip: an increment made from a stale read, which another caller's overwrites
TickValueStale(clock) == IF clock = 0 THEN 1 ELSE clock

\* _increment_lamport_clock: the new counter, which is also the value returned
TickValue(clock) == clock + 1

\* a slip: the received timestamp is merged without the increment
ObserveValueNoIncrement(clock, received_clock) == Max(clock, received_clock)

\* _update_lamport_clock: the new counter, which is also the value returned
ObserveValue(clock, received_clock) == Max(clock, received_clock) + 1

----------------------------------------------------------------------------
(* Replica: ReplicateUpdate *)

ReplicaInit == [voters_db |-> InitialVoters, voting_active |-> FALSE,
                voting_deadline |-> Nothing, results_published |-> FALSE]

\* "vote": the first record with that id is marked; none is a silent no-op
ReplicaApplyVote(db, data) ==
    IF \E i \in 1..Len(db) : db[i].id = data.voter_id
    THEN LET k == CHOOSE i \in 1..Len(db) :
                     /\ db[i].id = data.voter_id
                     /\ \A j \in 1..(i-1) : db[j].id # data.voter_id
         IN [db EXCEPT ![k].has_voted = TRUE, ![k].vote = data.candidate]
    ELSE db

\* a slip: the check for an existing record is left out
ReplicaApplyRegisterAlways(db, data) == Append(db, data)

\* "register": appended unless a record with that id exists
ReplicaApplyRegister(db, data) ==
    IF \E i \in 1..Len(db) : db[i].id = data.id THEN db ELSE Append(db, data)

\* the state of a replica after ReplicateUpdate(operation, data)
ReplicateUpdate(r, operation, data) ==
    CASE operation = "vote" ->
            [r EXCEPT !.voters_db = ReplicaApplyVote(r.voters_db, data)]
      [] operation = "register" ->
            [r EXCEPT !.voters_db = ReplicaApplyRegister(r.voters_db, data)]
      [] operation = "set_timer" ->
            [r EXCEPT !.voting_deadline = Some(data.end_time)]
      [] operation = "start_vote" ->
            [r EXCEPT !.voting_active = TRUE, !.results_published = FALSE]
      [] operation = "stop_vote" ->
            [r EXCEPT !.voting_active = FALSE]
      [] operation = "publish_results" ->
            [r EXCEPT !.results_published = TRUE]
      [] OTHER -> r

\* what ReplicateUpdate returns
ReplicateUpdateResult(operation) ==
    operation \in {"vote", "register", "set_timer", "start_vote", "stop_vote", "publish_results"}

----------------------------------------------------------------------------
(* Replicator: _replicate_to_replicas *)

\* up is the set of replicas whose call goes through; the call to any other
\* replica raises, which is caught and logged inside the loop

RECURSIVE DeliveredUntilFailure(_, _)
\* a slip: the first call that raises ends the loop
DeliveredUntilFailure(ports, up) ==
    IF ports = << >> THEN {}
    ELSE IF Head(ports) \in up
         THEN {Head(ports)} \cup DeliveredUntilFailure(Tail(ports), up)
         ELSE {}

RECURSIVE Delivered(_, _)
\* the replicas that run ReplicateUpdate: `for replica_port in self.replica_ports`
Delivered(ports, up) ==
    IF ports = << >> THEN {}
    ELSE (IF Head(ports) \in up THEN {Head(ports)} ELSE {})
            \cup Delivered(Tail(ports), up)

successful_replicas(operation, up) ==
    Cardinality({p \in Delivered(replica_ports, up) : ReplicateUpdateResult(operation)})

ReplicationSucceeds(operation, up) == successful_replicas(operation, up) >= 1

ReplicasAfter(reps, operation, data, up) ==
    [p \in Replicas |-> IF p \in Delivered(replica_ports, up)
                        THEN ReplicateUpdate(reps[p], operation, data)
                        ELSE reps[p]]

----------------------------------------------------------------------------
(* Voter registry helpers *)

\* the first record with that id and name (the loops of Login and _process_single_vote)
FindVoter(db, id, name) ==
    IF \E i \in 1..Len(db) : db[i].id = id /\ db[i].name = name
    THEN Some(CHOOSE i \in 1..Len(db) :
                 /\ db[i].id = id /\ db[i].name = name
                 /\ \A j \in 1..(i-1) : ~(db[j].id = id /\ db[j].name = name))
    ELSE Nothing

\* a slip: only the record appended last is compared
FindByNameLast(db, name) ==
    IF Len(db) > 0 /\ db[Len(db)].name = name THEN Some(Len(db)) ELSE Nothing

\* the first record with that name (the loop of Register)
FindByName(db, name) ==
    IF \E i \in 1..Len(db) : db[i].name = name
    THEN Some(CHOOSE i \in 1..Len(db) :
                 /\ db[i].name = name
                 /\ \A j \in 1..(i-1) : db[j].name # name)
    ELSE Nothing

\* a slip: pop(0), the oldest record
PopFirst(db) == Tail(db)

\* self.voters_db.pop(): the registry without its last record
PopLast(db) == SubSeq(db, 1, Len(db) - 1)

\* voter["has_voted"] = True; voter["vote"] = candidate
RecordVote(db, k, candidate) == [db EXCEPT ![k].has_voted = TRUE, ![k].vote = candidate]

\* a slip: the rollback clears the candidate and leaves the flag
RollbackVoteKeepsFlag(db, k) == [db EXCEPT ![k].vote = None]

\* voter["has_voted"] = False; voter["vote"] = None
RollbackVote(db, k) == [db EXCEPT ![k].has_voted = FALSE, ![k].vote = None]

----------------------------------------------------------------------------
(* Admission queue: a heap of (timestamp, voter_id, counter, vote_request) *)

\* a vote request is the tuple (session_id, candidate, timestamp, click_time)
VoteRequest(session_id, candidate, timestamp, click_time) ==
    <<session_id, candidate, timestamp, click_time>>

\* a slip: first come, first served (the insertion counter alone)
EntryLessFifo(a, b) == a[3] < b[3]

\* a slip: the voter id is left out of the order
EntryLessNoVoter(a, b) ==
    \/ a[1] < b[1]
    \/ a[1] = b[1] /\ a[3] < b[3]

\* a slip: among equal timestamps and voters the newest entry comes first
EntryLessNewestFirst(a, b) ==
    \/ a[1] < b[1]
    \/ a[1] = b[1] /\ a[2] < b[2]
    \/ a[1] = b[1] /\ a[2] = b[2] /\ a[3] > b[3]

\* Python's order of the heap entries: by timestamp, then voter id, then counter
EntryLess(a, b) ==
    \/ a[1] < b[1]
    \/ a[1] = b[1] /\ a[2] < b[2]
    \/ a[1] = b[1] /\ a[2] = b[2] /\ a[3] < b[3]

\* a slip: the greatest entry instead of the least
HeapMax(queue) == CHOOSE e \in queue : \A f \in queue : f = e \/ EntryLess(f, e)

\* the entry heapq.heappop returns
HeapMin(queue) == CHOOSE e \in queue : \A f \in queue : f = e \/ EntryLess(e, f)

----------------------------------------------------------------------------
(* Locks held over more than one step *)

\* db_lock: held by a vote thread or by Register while it replicates
DbLocked == rpc.pc = "reg_repl" \/ \E i \in 1..Len(tasks) : tasks[i].pc = "repl"

\* a slip: the sleep after a requeue is taken inside the inner `with` block
QueueLockedThroughRequeue == sched.pc \in {"sleep_q", "sleep_ip"}

\* vote_queue_lock: held by the queue processor while it sleeps on an empty queue
QueueLocked == sched.pc = "sleep_q"

\* in_progress_lock: held by the queue processor while it sleeps after a requeue
InProgressLocked == sched.pc = "sleep_ip"

\* requests accepted so far: queued, held by the queue processor, or dispatched
NumRequests ==
    Cardinality(vote_queue) + Len(tasks)
      + (IF sched.pc \in {"lookup", "guard", "start"} THEN 1 ELSE 0)

----------------------------------------------------------------------------
(* Initial state: VotingServer.__init__ and ReplicaServer.__init__ *)

SchedIdle == [pc |-> "check", req |-> Nothing, voter_id |-> Nothing]

RpcIdle == [pc |-> "idle", op |-> "", args |-> << >>, local |-> Nothing, result |-> Nothing,
            voted_before |-> {}, up |-> {}]

Init ==
    /\ lamport_clock = 0
    /\ clock_ret = 0
    /\ voters_db = InitialVoters
    /\ voting_active = FALSE
    /\ voting_deadline = Nothing
    /\ results_published = FALSE
    /\ active_votes = 0
    /\ vote_queue = {}
    /\ vote_counter = 0
    /\ in_progress_votes = {}
    /\ active_sessions = << >>
    /\ replicas = [p \in Replicas |-> ReplicaInit]
    /\ sched = SchedIdle
    /\ tasks = << >>
    /\ rpc = RpcIdle
    /\ commit_order = << >>

----------------------------------------------------------------------------
(* The RPC thread.  A call is accepted while no other call is being served. *)

\* history kept with a call: the voters whose vote a finished vote thread had
\* recorded when the call arrived (voted_before), and the replicas that the
\* replication made by the call reached (up)
VotedAtCall ==
    {tasks[i].voter_id[1] :
       i \in {j \in 1..Len(tasks) :
                /\ tasks[j].pc = "done"
                /\ tasks[j].result = Some([success |-> TRUE,
                                           message |-> "Vote recorded successfully"])}}

Call(op, args) == [pc |-> op, op |-> op, args |-> args, local |-> Nothing, result |-> Nothing,
                   voted_before |-> VotedAtCall, up |-> {}]

Return(result) == [RpcIdle EXCEPT !.result = Some(result)]

\* Register(name): the clock tick that opens the handler; in an environment
\* that sets up first, voters register before the first vote is submitted
RegisterCall(env) ==
    /\ rpc.pc = "idle"
    /\ lamport_clock < env.maxClock
    /\ env.setupFirst => NumRequests = 0
    /\ \E name \in env.regNames : rpc' = [Call("Register", <<name>>) EXCEPT !.pc = "reg_db"]
    /\ lamport_clock' = TickValue(lamport_clock)
    /\ clock_ret' = TickValue(lamport_clock)
    /\ UNCHANGED <<voters_db, voting_active, voting_deadline, results_published,
                   active_votes, vote_queue, vote_counter, in_progress_votes,
                   active_sessions, replicas, sched, tasks, commit_order>>

\* Register: under db_lock, the lookup by name and the append
RegisterDb ==
    /\ rpc.pc = "reg_db"
    /\ ~DbLocked
    /\ LET name == rpc.args[1]
           found == FindByName(voters_db, name)
           new_id == Len(voters_db) + 1
           new_voter == [id |-> new_id, name |-> name, has_voted |-> FALSE, vote |-> None]
       IN IF found # Nothing
          THEN /\ rpc' = Return([success |-> TRUE, id |-> voters_db[found[1]].id,
                                 message |-> "Voter already registered"])
               /\ UNCHANGED voters_db
          ELSE /\ voters_db' = Append(voters_db, new_voter)
               /\ rpc' = [rpc EXCEPT !.pc = "reg_repl", !.local = Some(new_voter)]
    /\ UNCHANGED <<lamport_clock, clock_ret, voting_active, voting_deadline,
                   results_published, active_votes, vote_queue, vote_counter,
                   in_progress_votes, active_sessions, replicas, sched, tasks,
                   commit_order>>

\* Register: still under db_lock, the replication and the rollback
RegisterRepl(env) ==
    /\ rpc.pc = "reg_repl"
    /\ \E acked \in env.acks :
         LET new_voter == rpc.local[1]
         IN /\ replicas' = ReplicasAfter(replicas, "register", new_voter, acked)
            /\ IF ReplicationSucceeds("register", acked)
               THEN /\ rpc' = [Return([success |-> TRUE, id |-> new_voter.id,
                                       message |-> "Registration successful"])
                                 EXCEPT !.up = acked]
                    /\ UNCHANGED voters_db
               ELSE /\ voters_db' = PopLast(voters_db)
                    /\ rpc' = [Return([success |-> FALSE,
                                       message |-> "Registration failed due to replication error"])
                                 EXCEPT !.up = acked]
    /\ UNCHANGED <<lamport_clock, clock_ret, voting_active, voting_deadline,
                   results_published, active_votes, vote_queue, vote_counter,
                   in_progress_votes, active_sessions, sched, tasks, commit_order>>

\* Login(name, voter_id): the clock tick that opens the handler
LoginCall(env) ==
    /\ rpc.pc = "idle"
    /\ lamport_clock < env.maxClock
    /\ \E cred \in env.logins : rpc' = [Call("Login", cred) EXCEPT !.pc = "login_db"]
    /\ lamport_clock' = TickValue(lamport_clock)
    /\ clock_ret' = TickValue(lamport_clock)
    /\ UNCHANGED <<voters_db, voting_active, voting_deadline, results_published,
                   active_votes, vote_queue, vote_counter, in_progress_votes,
                   active_sessions, replicas, sched, tasks, commit_order>>

\* session_id = f"session_{voter_id}_{int(time.time())}"
SessionId(voter_id, second) == <<voter_id, second>>

\* self.active_sessions[session_id] = {...}
PutSession(sessions, sid, info) ==
    [s \in DOMAIN sessions \cup {sid} |-> IF s = sid THEN info ELSE sessions[s]]

\* a slip: an unknown id falls back to an open session
GetSessionOrFirst(sessions, sid) ==
    IF sid \in DOMAIN sessions THEN Some(sessions[sid])
    ELSE IF DOMAIN sessions = {} THEN Nothing
    ELSE Some(sessions[CHOOSE s \in DOMAIN sessions : TRUE])

\* self.active_sessions.get(session_id)
GetSession(sessions, sid) == IF sid \in DOMAIN sessions THEN Some(sessions[sid]) ELSE Nothing

\* Login: under db_lock, the credential check and the new session
LoginDb(env) ==
    /\ rpc.pc = "login_db"
    /\ ~DbLocked
    /\ LET name == rpc.args[1]
           voter_id == rpc.args[2]
           found == FindVoter(voters_db, voter_id, name)
       IN IF found = Nothing
          THEN /\ rpc' = Return([success |-> FALSE, message |-> "Invalid credentials"])
               /\ UNCHANGED active_sessions
          ELSE \E second \in env.seconds :
                 LET session_id == SessionId(voter_id, second)
                 IN /\ active_sessions' =
                          PutSession(active_sessions, session_id,
                                     [id |-> voter_id, name |-> name, login_time |-> second])
                    /\ rpc' = Return([success |-> TRUE, session_id |-> session_id,
                                      has_voted |-> voters_db[found[1]].has_voted,
                                      message |-> "Login successful"])
    /\ UNCHANGED <<lamport_clock, clock_ret, voters_db, voting_active, voting_deadline,
                   results_published, active_votes, vote_queue, vote_counter,
                   in_progress_votes, replicas, sched, tasks, commit_order>>

\* Vote(session_id, candidate, timestamp, click_time): the clock tick that
\* opens the handler
VoteCall(env) ==
    /\ rpc.pc = "idle"
    /\ lamport_clock < env.maxClock
    /\ NumRequests < env.maxVotes
    /\ \E session_id \in env.voteSessions, candidate \in env.cands,
          timestamp \in env.tss,
          click_time \in (IF env.orderedClicks THEN {NumRequests + 1} ELSE env.clicks) :
         rpc' = [Call("Vote", <<session_id, candidate, timestamp, click_time>>)
                   EXCEPT !.pc = "vote_session"]
    /\ lamport_clock' = TickValue(lamport_clock)
    /\ clock_ret' = TickValue(lamport_clock)
    /\ UNCHANGED <<voters_db, voting_active, voting_deadline, results_published,
                   active_votes, vote_queue, vote_counter, in_progress_votes,
                   active_sessions, replicas, sched, tasks, commit_order>>

\* a slip: the validation is left out
InvalidCandidateNever(candidate) == FALSE

\* `candidate not in self.candidates`
InvalidCandidate(candidate) == candidate \notin SeqToSet(candidates)

\* Vote: the candidate check and the session lookup
VoteSession ==
    /\ rpc.pc = "vote_session"
    /\ LET voter_info == GetSession(active_sessions, rpc.args[1])
       IN IF InvalidCandidate(rpc.args[2])
          THEN rpc' = Return([success |-> FALSE, message |-> "Invalid candidate"])
          ELSE IF voter_info = Nothing
          THEN rpc' = Return([success |-> FALSE, message |-> "Invalid session"])
          ELSE rpc' = [rpc EXCEPT !.pc = "vote_push", !.local = Some(voter_info[1].id)]
    /\ UNCHANGED <<lamport_clock, clock_ret, voters_db, voting_active, voting_deadline,
                   results_published, active_votes, vote_queue, vote_counter,
                   in_progress_votes, active_sessions, replicas, sched, tasks,
                   commit_order>>

\* a slip: the queue is rebuilt around the new entry
HeapPushAlone(queue, timestamp, voter_id, counter, vote_request) ==
    {<<timestamp, voter_id, counter, vote_request>>}

\* heapq.heappush(self.vote_queue, (timestamp, voter_id, self.vote_counter, vote_request))
HeapPush(queue, timestamp, voter_id, counter, vote_request) ==
    queue \cup {<<timestamp, voter_id, counter, vote_request>>}

\* The insertion counter grows without bound; the code uses the counters of
\* the entries only to compare them with each other.  An instance with
\* relative counters keeps, after every push, the ranks of the counters in
\* place of the counters, and the number of entries as the next counter.
Ranked(queue) ==
    {<<e[1], e[2], Cardinality({f \in queue : f[3] < e[3]}), e[4]>> : e \in queue}

QueueAfterPush(env, queue) == IF env.relative THEN Ranked(queue) ELSE queue

CounterAfterPush(env, counter, queue) ==
    IF env.relative THEN Cardinality(queue) ELSE counter + 1

\* what Vote returns for a request it has queued
QueuedAck == [success |-> TRUE, message |-> "Vote queued for processing", queued |-> TRUE]

\* Vote: under vote_queue_lock, the push; then the acknowledgment
VotePush(env) ==
    /\ rpc.pc = "vote_push"
    /\ ~QueueLocked
    /\ vote_counter < env.maxCounter
    /\ LET vote_request == VoteRequest(rpc.args[1], rpc.args[2], rpc.args[3], rpc.args[4])
           pushed == HeapPush(vote_queue, rpc.args[3], rpc.local[1], vote_counter, vote_request)
       IN /\ vote_queue' = QueueAfterPush(env, pushed)
          /\ vote_counter' = CounterAfterPush(env, vote_counter, pushed)
    /\ rpc' = Return(QueuedAck)
    /\ UNCHANGED <<lamport_clock, clock_ret, voters_db, voting_active, voting_deadline,
                   results_published, active_votes, in_progress_votes, active_sessions,
                   replicas, sched, tasks, commit_order>>

\* an administrative call: SetTimer(end_time), StartVote(), StopVote(),
\* PublishResults(); in an environment that sets up first, the administrator
\* acts before the first vote is submitted
AdminCall(env) ==
    /\ rpc.pc = "idle"
    /\ env.setupFirst => NumRequests = 0
    /\ \/ \E end_time \in env.deadlines :
            rpc' = [Call("SetTimer", <<end_time>>) EXCEPT !.pc = "set_timer"]
       \/ \E op \in env.adminOps :
            rpc' = [Call(op, << >>) EXCEPT
                      !.pc = CASE op = "StartVote" -> "start_vote"
                               [] op = "StopVote" -> "stop_vote"
                               [] OTHER -> "publish"]
    /\ UNCHANGED <<lamport_clock, clock_ret, voters_db, voting_active, voting_deadline,
                   results_published, active_votes, vote_queue, vote_counter,
                   in_progress_votes, active_sessions, replicas, sched, tasks,
                   commit_order>>

\* SetTimer: the deadline, its replication (the outcome is ignored)
SetTimer(env) ==
    /\ rpc.pc = "set_timer"
    /\ voting_deadline' = Some(rpc.args[1])
    /\ \E acked \in env.adminAcks :
         /\ replicas' = ReplicasAfter(replicas, "set_timer", [end_time |-> rpc.args[1]], acked)
         /\ rpc' = [Return([success |-> TRUE, message |-> "Timer set successfully"]) EXCEPT !.up = acked]
    /\ UNCHANGED <<lamport_clock, clock_ret, voters_db, voting_active, results_published,
                   active_votes, vote_queue, vote_counter, in_progress_votes,
                   active_sessions, sched, tasks, commit_order>>

\* StartVote: the flags, their replication (the outcome is ignored)
StartVote(env) ==
    /\ rpc.pc = "start_vote"
    /\ voting_active' = TRUE
    /\ results_published' = FALSE
    /\ \E acked \in env.adminAcks :
         /\ replicas' = ReplicasAfter(replicas, "start_vote", << >>, acked)
         /\ rpc' = [Return([success |-> TRUE, message |-> "Voting started"]) EXCEPT !.up = acked]
    /\ UNCHANGED <<lamport_clock, clock_ret, voters_db, voting_deadline, active_votes,
                   vote_queue, vote_counter, in_progress_votes, active_sessions, sched,
                   tasks, commit_order>>

\* StopVote: the flag, its replication (the outcome is ignored)
StopVote(env) ==
    /\ rpc.pc = "stop_vote"
    /\ voting_active' = FALSE
    /\ \E acked \in env.adminAcks :
         /\ replicas' = ReplicasAfter(replicas, "stop_vote", << >>, acked)
         /\ rpc' = [Return([success |-> TRUE, message |-> "Voting stopped"]) EXCEPT !.up = acked]
    /\ UNCHANGED <<lamport_clock, clock_ret, voters_db, voting_deadline, results_published,
                   active_votes, vote_queue, vote_counter, in_progress_votes,
                   active_sessions, sched, tasks, commit_order>>

\* the votes PublishResults collects under db_lock
CollectedVotes(db) ==
    LET idx == {i \in 1..Len(db) : db[i].has_voted /\ db[i].vote # None}
    IN [i \in idx |-> db[i].vote]

\* the response of a method that ends without a return statement
NoResponse == [value |-> None]

\* a slip: the gate is left out
PublishRefusedNever(active) == FALSE

\* `if self.voting_active`: publication is refused
PublishRefused(active) == active

\* PublishResults: refused while voting is active; otherwise the votes are
\* collected and the method ends without a return value
PublishResults ==
    /\ rpc.pc = "publish"
    /\ IF PublishRefused(voting_active)
       THEN rpc' = Return([success |-> FALSE,
                           message |-> "Cannot publish results while voting is active"])
       ELSE /\ ~DbLocked
            /\ rpc' = Return(NoResponse)
    /\ UNCHANGED <<lamport_clock, clock_ret, voters_db, voting_active, voting_deadline,
                   results_published, active_votes, vote_queue, vote_counter,
                   in_progress_votes, active_sessions, replicas, sched, tasks,
                   commit_order>>

----------------------------------------------------------------------------
(* The queue processor: _process_vote_queue *)

\* `if self.active_votes < self.max_concurrent_votes`, else sleep and look again
SchedCheck ==
    /\ sched.pc = "check"
    /\ IF active_votes < max_concurrent_votes
       THEN sched' = [sched EXCEPT !.pc = "pop"]
       ELSE UNCHANGED sched
    /\ UNCHANGED <<lamport_clock, clock_ret, voters_db, voting_active, voting_deadline,
                   results_published, active_votes, vote_queue, vote_counter,
                   in_progress_votes, active_sessions, replicas, tasks, rpc, commit_order>>

\* under vote_queue_lock: sleep on an empty queue, else pop the least entry
SchedPop ==
    /\ sched.pc = "pop"
    /\ IF vote_queue = {}
       THEN /\ sched' = [sched EXCEPT !.pc = "sleep_q"]
            /\ UNCHANGED vote_queue
       ELSE LET entry == HeapMin(vote_queue)
            IN /\ vote_queue' = vote_queue \ {entry}
               /\ sched' = [sched EXCEPT !.pc = "lookup", !.req = Some(entry[4])]
    /\ UNCHANGED <<lamport_clock, clock_ret, voters_db, voting_active, voting_deadline,
                   results_published, active_votes, vote_counter, in_progress_votes,
                   active_sessions, replicas, tasks, rpc, commit_order>>

\* the end of a sleep taken inside a `with` block: the lock is released
SchedWake ==
    /\ sched.pc \in {"sleep_q", "sleep_ip"}
    /\ sched' = SchedIdle
    /\ UNCHANGED <<lamport_clock, clock_ret, voters_db, voting_active, voting_deadline,
                   results_published, active_votes, vote_queue, vote_counter,
                   in_progress_votes, active_sessions, replicas, tasks, rpc, commit_order>>

\* the session lookup; a request whose session is unknown is dropped
SchedLookup ==
    /\ sched.pc = "lookup"
    /\ LET voter_info == GetSession(active_sessions, sched.req[1][1])
       IN IF voter_info = Nothing
          THEN sched' = SchedIdle
          ELSE sched' = [sched EXCEPT !.pc = "guard", !.voter_id = Some(voter_info[1].id)]
    /\ UNCHANGED <<lamport_clock, clock_ret, voters_db, voting_active, voting_deadline,
                   results_published, active_votes, vote_queue, vote_counter,
                   in_progress_votes, active_sessions, replicas, tasks, rpc, commit_order>>

\* a slip: the test is left out
VoterInProgressNever(voter_id, marked) == FALSE

\* a slip: every request is taken for one of a voter in progress
VoterInProgressAlways(voter_id, marked) == TRUE

\* `if voter_id in self.in_progress_votes`
VoterInProgress(voter_id, marked) == voter_id \in marked

\* under in_progress_lock: requeue the request of a voter in progress (and
\* sleep), else mark the voter
SchedGuard(env) ==
    /\ sched.pc = "guard"
    /\ ~InProgressLocked
    /\ LET voter_id == sched.voter_id[1]
           vote_request == sched.req[1]
       IN IF VoterInProgress(voter_id, in_progress_votes)
          THEN /\ ~QueueLocked
               /\ vote_counter < env.maxCounter
               /\ LET pushed == HeapPush(vote_queue, vote_request[3], voter_id,
                                         vote_counter, vote_request)
                  IN /\ vote_queue' = QueueAfterPush(env, pushed)
                     /\ vote_counter' = CounterAfterPush(env, vote_counter, pushed)
               /\ sched' = [SchedIdle EXCEPT !.pc = "sleep_ip"]
               /\ UNCHANGED in_progress_votes
          ELSE /\ in_progress_votes' = in_progress_votes \cup {voter_id}
               /\ sched' = [sched EXCEPT !.pc = "start"]
               /\ UNCHANGED <<vote_queue, vote_counter>>
    /\ UNCHANGED <<lamport_clock, clock_ret, voters_db, voting_active, voting_deadline,
                   results_published, active_votes, active_sessions, replicas, tasks,
                   rpc, commit_order>>

\* a thread at the first statement of _process_single_vote (up: history, the
\* replicas that the replication of its vote reached)
NewTask(vote_request) ==
    [req |-> vote_request, pc |-> "lookup", voter_info |-> Nothing, voter_id |-> Nothing,
     marked_in_progress |-> FALSE, result |-> Nothing, up |-> {}]

\* threading.Thread(target=self._process_single_vote, args=(vote_request,)).start()
SchedStart ==
    /\ sched.pc = "start"
    /\ tasks' = Append(tasks, NewTask(sched.req[1]))
    /\ sched' = SchedIdle
    /\ UNCHANGED <<lamport_clock, clock_ret, voters_db, voting_active, voting_deadline,
                   results_published, active_votes, vote_queue, vote_counter,
                   in_progress_votes, active_sessions, replicas, rpc, commit_order>>

----------------------------------------------------------------------------
(* A vote thread: _process_single_vote *)

\* the value a vote thread returns
Result(success, message) == [success |-> success, message |-> message]

\* `return` inside the try block: control passes to the finally block
TaskReturn(task, result) == [task EXCEPT !.pc = "dec", !.result = Some(result)]

\* the threads that may take a step: all of them, or, under a sequential
\* schedule, the oldest unfinished one
TaskMayRun(env, i) ==
    /\ i \in 1..Len(tasks)
    /\ env.sequential => \A j \in 1..(i-1) : tasks[j].pc = "done"

\* the session lookup that opens the thread
TaskLookup(env, i) ==
    /\ TaskMayRun(env, i)
    /\ tasks[i].pc = "lookup"
    /\ LET voter_info == GetSession(active_sessions, tasks[i].req[1])
       IN tasks' = [tasks EXCEPT ![i].pc = "inc",
                                 ![i].voter_info = voter_info,
                                 ![i].voter_id = IF voter_info = Nothing THEN Nothing
                                                 ELSE Some(voter_info[1].id)]
    /\ UNCHANGED <<lamport_clock, clock_ret, voters_db, voting_active, voting_deadline,
                   results_published, active_votes, vote_queue, vote_counter,
                   in_progress_votes, active_sessions, replicas, sched, rpc, commit_order>>

\* under vote_lock: self.active_votes += 1
TaskInc(env, i) ==
    /\ TaskMayRun(env, i)
    /\ tasks[i].pc = "inc"
    /\ active_votes' = active_votes + 1
    /\ tasks' = [tasks EXCEPT ![i].pc = "mark"]
    /\ UNCHANGED <<lamport_clock, clock_ret, voters_db, voting_active, voting_deadline,
                   results_published, vote_queue, vote_counter, in_progress_votes,
                   active_sessions, replicas, sched, rpc, commit_order>>

\* under in_progress_lock: mark the voter unless the queue processor did
TaskMark(env, i) ==
    /\ TaskMayRun(env, i)
    /\ tasks[i].pc = "mark"
    /\ IF tasks[i].voter_id = Nothing
       THEN /\ tasks' = [tasks EXCEPT ![i].pc = "chk_active"]
            /\ UNCHANGED in_progress_votes
       ELSE /\ ~InProgressLocked
            /\ IF tasks[i].voter_id[1] \notin in_progress_votes
               THEN /\ in_progress_votes' = in_progress_votes \cup {tasks[i].voter_id[1]}
                    /\ tasks' = [tasks EXCEPT ![i].pc = "chk_active",
                                              ![i].marked_in_progress = TRUE]
               ELSE /\ tasks' = [tasks EXCEPT ![i].pc = "chk_active"]
                    /\ UNCHANGED in_progress_votes
    /\ UNCHANGED <<lamport_clock, clock_ret, voters_db, voting_active, voting_deadline,
                   results_published, active_votes, vote_queue, vote_counter,
                   active_sessions, replicas, sched, rpc, commit_order>>

\* `if not voter_info` and `if not self.voting_active`
TaskCheckActive(env, i) ==
    /\ TaskMayRun(env, i)
    /\ tasks[i].pc = "chk_active"
    /\ tasks' = [tasks EXCEPT ![i] =
                   IF tasks[i].voter_info = Nothing
                   THEN TaskReturn(tasks[i], Result(FALSE, "Invalid session"))
                   ELSE IF ~voting_active
                   THEN TaskReturn(tasks[i], Result(FALSE, "Voting is not active"))
                   ELSE [tasks[i] EXCEPT !.pc = "chk_deadline"]]
    /\ UNCHANGED <<lamport_clock, clock_ret, voters_db, voting_active, voting_deadline,
                   results_published, active_votes, vote_queue, vote_counter,
                   in_progress_votes, active_sessions, replicas, sched, rpc, commit_order>>

\* `self.voting_deadline and click_time > self.voting_deadline`
AfterDeadline(deadline, click_time) == Truthy(deadline) /\ click_time > deadline[1]

\* the deadline check
TaskCheckDeadline(env, i) ==
    /\ TaskMayRun(env, i)
    /\ tasks[i].pc = "chk_deadline"
    /\ tasks' = [tasks EXCEPT ![i] =
                   IF AfterDeadline(voting_deadline, tasks[i].req[4])
                   THEN TaskReturn(tasks[i], Result(FALSE, "Vote submitted after deadline"))
                   ELSE [tasks[i] EXCEPT !.pc = "clock"]]
    /\ UNCHANGED <<lamport_clock, clock_ret, voters_db, voting_active, voting_deadline,
                   results_published, active_votes, vote_queue, vote_counter,
                   in_progress_votes, active_sessions, replicas, sched, rpc, commit_order>>

\* self._update_lamport_clock(timestamp)
TaskClock(env, i) ==
    /\ TaskMayRun(env, i)
    /\ tasks[i].pc = "clock"
    /\ lamport_clock' = ObserveValue(lamport_clock, tasks[i].req[3])
    /\ clock_ret' = ObserveValue(lamport_clock, tasks[i].req[3])
    /\ tasks' = [tasks EXCEPT ![i].pc = "db"]
    /\ UNCHANGED <<voters_db, voting_active, voting_deadline, results_published,
                   active_votes, vote_queue, vote_counter, in_progress_votes,
                   active_sessions, replicas, sched, rpc, commit_order>>

\* a slip: the check of the flag is left out
AlreadyVotedNever(voter) == FALSE

\* `if voter["has_voted"]`: the vote is refused
AlreadyVoted(voter) == voter.has_voted

\* under db_lock: find the voter, refuse a second vote, record the vote
TaskDb(env, i) ==
    /\ TaskMayRun(env, i)
    /\ tasks[i].pc = "db"
    /\ ~DbLocked
    /\ LET voter_info == tasks[i].voter_info[1]
           found == FindVoter(voters_db, voter_info.id, voter_info.name)
       IN IF found = Nothing
          THEN /\ tasks' = [tasks EXCEPT ![i] =
                              TaskReturn(tasks[i], Result(FALSE, "Voter not found"))]
               /\ UNCHANGED <<voters_db, commit_order>>
          ELSE IF AlreadyVoted(voters_db[found[1]])
          THEN /\ tasks' = [tasks EXCEPT ![i] =
                              TaskReturn(tasks[i], Result(FALSE, "Already voted"))]
               /\ UNCHANGED <<voters_db, commit_order>>
          ELSE /\ voters_db' = RecordVote(voters_db, found[1], tasks[i].req[2])
               /\ commit_order' = Append(commit_order, i)
               /\ tasks' = [tasks EXCEPT ![i].pc = "repl"]
    /\ UNCHANGED <<lamport_clock, clock_ret, voting_active, voting_deadline,
                   results_published, active_votes, vote_queue, vote_counter,
                   in_progress_votes, active_sessions, replicas, sched, rpc>>

\* still under db_lock: replicate the vote; roll it back if no replica took it
TaskRepl(env, i) ==
    /\ TaskMayRun(env, i)
    /\ tasks[i].pc = "repl"
    /\ LET voter_info == tasks[i].voter_info[1]
           k == FindVoter(voters_db, voter_info.id, voter_info.name)[1]
           replication_data == [voter_id |-> voters_db[k].id, candidate |-> tasks[i].req[2],
                                timestamp |-> tasks[i].req[3]]
       IN \E acked \in env.acks :
            /\ replicas' = ReplicasAfter(replicas, "vote", replication_data, acked)
            /\ IF ReplicationSucceeds("vote", acked)
               THEN /\ tasks' = [tasks EXCEPT ![i] =
                                   [TaskReturn(tasks[i], Result(TRUE, "Vote recorded successfully"))
                                      EXCEPT !.up = acked]]
                    /\ UNCHANGED voters_db
               ELSE /\ voters_db' = RollbackVote(voters_db, k)
                    /\ tasks' = [tasks EXCEPT ![i] =
                                   [TaskReturn(tasks[i], Result(FALSE, "Replication failed"))
                                      EXCEPT !.up = acked]]
    /\ UNCHANGED <<lamport_clock, clock_ret, voting_active, voting_deadline,
                   results_published, active_votes, vote_queue, vote_counter,
                   in_progress_votes, active_sessions, sched, rpc, commit_order>>

\* finally, under vote_lock: self.active_votes -= 1
TaskDec(env, i) ==
    /\ TaskMayRun(env, i)
    /\ tasks[i].pc = "dec"
    /\ active_votes' = active_votes - 1
    /\ tasks' = [tasks EXCEPT ![i].pc = "unmark"]
    /\ UNCHANGED <<lamport_clock, clock_ret, voters_db, voting_active, voting_deadline,
                   results_published, vote_queue, vote_counter, in_progress_votes,
                   active_sessions, replicas, sched, rpc, commit_order>>

\* a slip: the mark is cleared only by the thread that set it
ClearMarkIfOwn(marked, voter_id, own) == IF own THEN marked \ {voter_id} ELSE marked

\* `if voter_id in self.in_progress_votes: self.in_progress_votes.remove(voter_id)`
\* (own is marked_in_progress, which the code sets and does not read)
ClearMark(marked, voter_id, own) == marked \ {voter_id}

\* finally, under in_progress_lock: clear the voter's mark
TaskUnmark(env, i) ==
    /\ TaskMayRun(env, i)
    /\ tasks[i].pc = "unmark"
    /\ IF tasks[i].voter_id = Nothing
       THEN UNCHANGED in_progress_votes
       ELSE /\ ~InProgressLocked
            /\ in_progress_votes' = ClearMark(in_progress_votes, tasks[i].voter_id[1],
                                              tasks[i].marked_in_progress)
    /\ tasks' = [tasks EXCEPT ![i].pc = "done"]
    /\ UNCHANGED <<lamport_clock, clock_ret, voters_db, voting_active, voting_deadline,
                   results_published, active_votes, vote_queue, vote_counter,
                   active_sessions, replicas, sched, rpc, commit_order>>

----------------------------------------------------------------------------
(* Next-state relation, for the calls and outcomes of an environment env *)

RpcStep(env) ==
    \/ RegisterCall(env) \/ RegisterDb \/ RegisterRepl(env)
    \/ LoginCall(env) \/ LoginDb(env)
    \/ VoteCall(env) \/ VoteSession \/ VotePush(env)
    \/ AdminCall(env) \/ SetTimer(env) \/ StartVote(env) \/ StopVote(env) \/ PublishResults

SchedStep(env) ==
    \/ SchedCheck \/ SchedPop \/ SchedWake \/ SchedLookup \/ SchedGuard(env) \/ SchedStart

TaskStep(env) ==
    \/ \E i \in 1..Len(tasks) : TaskLookup(env, i)
    \/ \E i \in 1..Len(tasks) : TaskInc(env, i)
    \/ \E i \in 1..Len(tasks) : TaskMark(env, i)
    \/ \E i \in 1..Len(tasks) : TaskCheckActive(env, i)
    \/ \E i \in 1..Len(tasks) : TaskCheckDeadline(env, i)
    \/ \E i \in 1..Len(tasks) : TaskClock(env, i)
    \/ \E i \in 1..Len(tasks) : TaskDb(env, i)
    \/ \E i \in 1..Len(tasks) : TaskRepl(env, i)
    \/ \E i \in 1..Len(tasks) : TaskDec(env, i)
    \/ \E i \in 1..Len(tasks) : TaskUnmark(env, i)

NextEnv(env) == RpcStep(env) \/ SchedStep(env) \/ TaskStep(env)

\* the coordinator with clients that log in and vote and an administrator
\* who opens the vote, and nobody else
VotingStep(env) ==
    \/ LoginCall(env) \/ LoginDb(env)
    \/ VoteCall(env) \/ VoteSession \/ VotePush(env)
    \/ AdminCall(env) \/ StartVote(env)

NextVoting(env) == VotingStep(env) \/ SchedStep(env) \/ TaskStep(env)

\* the outcomes of a replication call: the set of replicas that acknowledge
AllAcks == SUBSET Replicas

\* clients: Alice logs in and votes, also with a session nobody opened and
\* for a candidate nobody nominated; Alice and a new voter register; an
\* administrator sets a deadline, opens and closes the vote and publishes
Env ==
    [logins |-> {<<"Alice", 1>>},
     seconds |-> {0},
     regNames |-> {"Alice", "Zoe"},
     voteSessions |-> {SessionId(1, 0), SessionId(1, 1)},
     cands |-> {"Candidate A", "Nobody"},
     tss |-> {3},
     clicks |-> {1},
     deadlines |-> {2},
     adminOps |-> {"StartVote", "StopVote", "PublishResults"},
     acks |-> {Replicas},
     adminAcks |-> {Replicas},
     maxVotes |-> MaxVotes,
     maxCounter |-> MaxCounter,
     maxClock |-> MaxClock,
     sequential |-> FALSE,
     orderedClicks |-> FALSE,
     relative |-> FALSE,
     setupFirst |-> FALSE]

Next == NextEnv(Env)

Spec == Init /\ [][Next]_vars

\* clients: Alice logs in twice and votes from either session for either of
\* two candidates; a replication of a vote or of a registration reaches all
\* replicas or none; registrations and administrative calls come before the
\* first vote
EnvVote ==
    [logins |-> {<<"Alice", 1>>},
     seconds |-> {0, 1},
     regNames |-> {"Zoe"},
     voteSessions |-> {SessionId(1, 0), SessionId(1, 1)},
     cands |-> {"Candidate A", "Candidate B"},
     tss |-> {3},
     clicks |-> {1},
     deadlines |-> {2},
     adminOps |-> {"StartVote", "StopVote", "PublishResults"},
     acks |-> {Replicas, {}},
     adminAcks |-> {Replicas},
     maxVotes |-> MaxVotes,
     maxCounter |-> MaxCounter,
     maxClock |-> MaxClock,
     sequential |-> FALSE,
     orderedClicks |-> FALSE,
     relative |-> FALSE,
     setupFirst |-> TRUE]

NextVote == NextEnv(EnvVote)

SpecVote == Init /\ [][NextVote]_vars

\* clients: Alice and Bob log in and vote with timestamp 3 or 5;
\* registrations and administrative calls come before the first vote
EnvOrder ==
    [logins |-> {<<"Alice", 1>>, <<"Bob", 2>>},
     seconds |-> {0},
     regNames |-> {"Zoe"},
     voteSessions |-> {SessionId(1, 0), SessionId(2, 0)},
     cands |-> {"Candidate A"},
     tss |-> {3, 5},
     clicks |-> {1},
     deadlines |-> {2},
     adminOps |-> {"StartVote", "StopVote", "PublishResults"},
     acks |-> {Replicas},
     adminAcks |-> {Replicas},
     maxVotes |-> MaxVotes,
     maxCounter |-> MaxCounter,
     maxClock |-> MaxClock,
     sequential |-> FALSE,
     orderedClicks |-> FALSE,
     relative |-> FALSE,
     setupFirst |-> TRUE]

NextOrder == NextEnv(EnvOrder)

SpecOrder == Init /\ [][NextOrder]_vars

\* clients: Alice logs in and votes, also for a candidate nobody nominated; a
\* new voter registers; an administrator
\* acts; the replication of a vote or of a registration reaches any subset
\* of the replicas, that of an administrative call all of them or the last;
\* registrations and administrative calls come before the first vote
EnvRepl ==
    [logins |-> {<<"Alice", 1>>},
     seconds |-> {0},
     regNames |-> {"Zoe"},
     voteSessions |-> {SessionId(1, 0)},
     cands |-> {"Candidate A", "Nobody"},
     tss |-> {3},
     clicks |-> {1},
     deadlines |-> {2},
     adminOps |-> {"StartVote", "StopVote", "PublishResults"},
     acks |-> AllAcks,
     adminAcks |-> {Replicas, {replica_ports[2]}},
     maxVotes |-> MaxVotes,
     maxCounter |-> MaxCounter,
     maxClock |-> MaxClock,
     sequential |-> FALSE,
     orderedClicks |-> FALSE,
     relative |-> FALSE,
     setupFirst |-> TRUE]

NextRepl == NextEnv(EnvRepl)

SpecRepl == Init /\ [][NextRepl]_vars

\* clients: Alice logs in and votes once more than in the other instances,
\* always with the same timestamp; the click time of a request is its rank
\* among the accepted submissions; registrations and administrative calls
\* come before the first vote
EnvRequeue ==
    [logins |-> {<<"Alice", 1>>},
     seconds |-> {0},
     regNames |-> {"Zoe"},
     voteSessions |-> {SessionId(1, 0)},
     cands |-> {"Candidate A"},
     tss |-> {3},
     clicks |-> {1},
     deadlines |-> {2},
     adminOps |-> {"StartVote", "StopVote", "PublishResults"},
     acks |-> {Replicas},
     adminAcks |-> {Replicas},
     maxVotes |-> MaxVotes + 1,
     maxCounter |-> MaxCounter + 1,
     maxClock |-> MaxClock,
     sequential |-> FALSE,
     orderedClicks |-> TRUE,
     relative |-> FALSE,
     setupFirst |-> TRUE]

NextRequeue == NextEnv(EnvRequeue)

SpecRequeue == Init /\ [][NextRequeue]_vars

\* A state of a running coordinator: one voter more than the budget has
\* logged in, and as many of them as the budget have each had a Vote call
\* acknowledged, all before the queue processor looked at the queue again.
BudgetVoters == 1..(max_concurrent_votes + 1)

BudgetRequest(id) == VoteRequest(SessionId(id, 0), "Candidate A", 3, 1)

InitBudget ==
    /\ lamport_clock = 2 * max_concurrent_votes + 1
    /\ clock_ret = 2 * max_concurrent_votes + 1
    /\ voters_db = InitialVoters
    /\ voting_active = FALSE
    /\ voting_deadline = Nothing
    /\ results_published = FALSE
    /\ active_votes = 0
    /\ vote_queue = {<<3, id, id - 1, BudgetRequest(id)>> : id \in 1..max_concurrent_votes}
    /\ vote_counter = max_concurrent_votes
    /\ in_progress_votes = {}
    /\ active_sessions = [sid \in {SessionId(id, 0) : id \in BudgetVoters} |->
                            [id |-> sid[1], name |-> InitialNames[sid[1]], login_time |-> 0]]
    /\ replicas = [p \in Replicas |-> ReplicaInit]
    /\ sched = SchedIdle
    /\ tasks = << >>
    /\ rpc = Return(QueuedAck)
    /\ commit_order = << >>

\* clients: the last of these voters votes too; the vote threads run one
\* after the other, in the order in which they were started; nobody
\* registers, and the administrator only opens the vote
EnvBudget ==
    [logins |-> {<<InitialNames[max_concurrent_votes + 1], max_concurrent_votes + 1>>},
     seconds |-> {0},
     regNames |-> {"Zoe"},
     voteSessions |-> {SessionId(max_concurrent_votes + 1, 0)},
     cands |-> {"Candidate A"},
     tss |-> {3},
     clicks |-> {1},
     deadlines |-> {},
     adminOps |-> {"StartVote"},
     acks |-> {Replicas},
     adminAcks |-> {Replicas},
     maxVotes |-> max_concurrent_votes + 1,
     maxCounter |-> max_concurrent_votes + 2,
     maxClock |-> 2 * max_concurrent_votes + 3,
     sequential |-> TRUE,
     orderedClicks |-> FALSE,
     relative |-> FALSE,
     setupFirst |-> FALSE]

NextBudget == NextVoting(EnvBudget)

SpecBudget == InitBudget /\ [][NextBudget]_vars

\* clients: Alice logs in and votes, clicking before or after the deadline;
\* the administrator sets the deadline to 2 or to 0; registrations and
\* administrative calls come before the first vote
EnvDeadline ==
    [logins |-> {<<"Alice", 1>>},
     seconds |-> {0},
     regNames |-> {"Zoe"},
     voteSessions |-> {SessionId(1, 0)},
     cands |-> {"Candidate A"},
     tss |-> {3},
     clicks |-> {1, 3},
     deadlines |-> {0, 2},
     adminOps |-> {"StartVote", "StopVote", "PublishResults"},
     acks |-> {Replicas},
     adminAcks |-> {Replicas},
     maxVotes |-> MaxVotes,
     maxCounter |-> MaxCounter,
     maxClock |-> MaxClock,
     sequential |-> FALSE,
     orderedClicks |-> FALSE,
     relative |-> FALSE,
     setupFirst |-> TRUE]

NextDeadline == NextEnv(EnvDeadline)

SpecDeadline == Init /\ [][NextDeadline]_vars

\* clients: a new voter, Zoe, registers, logs in and votes; every replication
\* reaches one replica, the first or the second; registrations and
\* administrative calls come before the first vote
EnvNewVoter ==
    [logins |-> {<<"Zoe", Len(InitialVoters) + 1>>},
     seconds |-> {0},
     regNames |-> {"Zoe"},
     voteSessions |-> {SessionId(Len(InitialVoters) + 1, 0)},
     cands |-> {"Candidate A"},
     tss |-> {3},
     clicks |-> {1},
     deadlines |-> {2},
     adminOps |-> {"StartVote", "StopVote", "PublishResults"},
     acks |-> {{replica_ports[1]}, {replica_ports[2]}},
     adminAcks |-> {Replicas},
     maxVotes |-> MaxVotes,
     maxCounter |-> MaxCounter,
     maxClock |-> MaxClock,
     sequential |-> FALSE,
     orderedClicks |-> FALSE,
     relative |-> FALSE,
     setupFirst |-> TRUE]

NextNewVoter == NextEnv(EnvNewVoter)

SpecNewVoter == Init /\ [][NextNewVoter]_vars

\* clients: Alice and Bob log in; three votes are submitted, all with the
\* same timestamp; nobody registers, and the administrator only opens the vote
EnvStarve ==
    [logins |-> {<<"Alice", 1>>, <<"Bob", 2>>},
     seconds |-> {0},
     regNames |-> {"Zoe"},
     voteSessions |-> {SessionId(1, 0), SessionId(2, 0)},
     cands |-> {"Candidate A"},
     tss |-> {3},
     clicks |-> {1},
     deadlines |-> {},
     adminOps |-> {"StartVote"},
     acks |-> {Replicas},
     adminAcks |-> {Replicas},
     maxVotes |-> MaxVotes + 1,
     maxCounter |-> MaxCounter + 1,
     maxClock |-> MaxClock,
     sequential |-> FALSE,
     orderedClicks |-> FALSE,
     relative |-> FALSE,
     setupFirst |-> FALSE]

NextStarve == NextVoting(EnvStarve)

SpecStarve == Init /\ [][NextStarve]_vars

\* the steps of vote thread i
TaskAny(env, i) ==
    \/ TaskLookup(env, i) \/ TaskInc(env, i) \/ TaskMark(env, i)
    \/ TaskCheckActive(env, i) \/ TaskCheckDeadline(env, i) \/ TaskClock(env, i)
    \/ TaskDb(env, i) \/ TaskRepl(env, i) \/ TaskDec(env, i) \/ TaskUnmark(env, i)

\* clients: Alice logs in and votes twice, clicking before or after the
\* deadline; a replication of a vote reaches all replicas or none; calls are issued while the logical clock is below
\* the number of calls that takes; the counters of the queue are kept relative
EnvLive ==
    [logins |-> {<<"Alice", 1>>},
     seconds |-> {0},
     regNames |-> {"Zoe"},
     voteSessions |-> {SessionId(1, 0)},
     cands |-> {"Candidate A"},
     tss |-> {3},
     clicks |-> {1, 3},
     deadlines |-> {2},
     adminOps |-> {"StartVote", "StopVote", "PublishResults"},
     acks |-> {Replicas, {}},
     adminAcks |-> {Replicas},
     maxVotes |-> MaxVotes,
     maxCounter |-> MaxVotes + 1,
     maxClock |-> MaxVotes + 1,
     sequential |-> FALSE,
     orderedClicks |-> FALSE,
     relative |-> TRUE,
     setupFirst |-> FALSE]

NextLive == NextEnv(EnvLive)

\* the scheduling assumed: the queue processor keeps running, every vote
\* thread keeps running while it can take a step, and a replication call
\* made by Register returns
Fairness ==
    /\ WF_vars(SchedStep(EnvLive))
    /\ WF_vars(RegisterRepl(EnvLive))
    /\ \A i \in 1..MaxVotes : WF_vars(TaskAny(EnvLive, i))

SpecLive == Init /\ [][NextLive]_vars /\ Fairness

----------------------------------------------------------------------------
(* The replicas alone: ReplicateUpdate called with vote and register records, *)
(* in any order and any number of times, the coordinator being quiet.  rpc    *)
(* records the last call: the replica, the operation, the record, the answer. *)

\* the vote records delivered: replication_data of _process_single_vote
VoteRecords ==
    [voter_id : {1, Len(InitialVoters) + 1}, candidate : {"Candidate A", "Candidate B"},
     timestamp : {3}]

\* the register records delivered: new_voter of Register
RegisterRecords ==
    [id : {Len(InitialVoters) + 1}, name : {"Zoe", "Yan"}, has_voted : {FALSE}, vote : {None}]

Delivery(p, operation, data) ==
    /\ replicas' = [replicas EXCEPT ![p] = ReplicateUpdate(replicas[p], operation, data)]
    /\ rpc' = [RpcIdle EXCEPT !.op = "ReplicateUpdate",
                              !.args = <<p, operation, data>>,
                              !.result = Some(ReplicateUpdateResult(operation))]
    /\ UNCHANGED <<lamport_clock, clock_ret, voters_db, voting_active, voting_deadline,
                   results_published, active_votes, vote_queue, vote_counter,
                   in_progress_votes, active_sessions, sched, tasks, commit_order>>

DeliverVote == \E p \in Replicas, data \in VoteRecords : Delivery(p, "vote", data)

DeliverRegister == \E p \in Replicas, data \in RegisterRecords : Delivery(p, "register", data)

NextReplica == DeliverVote \/ DeliverRegister

SpecReplica == Init /\ [][NextReplica]_vars

----------------------------------------------------------------------------
(* GetVoterDatabase, served by the RPC thread next to the other calls.  The   *)
(* handler returns self.voters_db.copy(), a new list of the same records; the *)
(* server writes the response from these records after the handler has        *)
(* returned, that is after db_lock was released.                              *)

GetVoterDatabaseCall ==
    /\ rpc.pc = "idle"
    /\ rpc' = [Call("GetVoterDatabase", << >>) EXCEPT !.pc = "get_db"]
    /\ UNCHANGED <<lamport_clock, clock_ret, voters_db, voting_active, voting_deadline,
                   results_published, active_votes, vote_queue, vote_counter,
                   in_progress_votes, active_sessions, replicas, sched, tasks,
                   commit_order>>

\* the response: the records the copied list refers to, as they are when the
\* response is written
VotersSent(db, copied) == SubSeq(db, 1, Len(copied))

\* under db_lock: self.voters_db.copy()
GetVoterDatabaseCopy ==
    /\ rpc.pc = "get_db"
    /\ ~DbLocked
    /\ rpc' = [rpc EXCEPT !.pc = "get_db_send", !.local = Some(voters_db)]
    /\ UNCHANGED <<lamport_clock, clock_ret, voters_db, voting_active, voting_deadline,
                   results_published, active_votes, vote_queue, vote_counter,
                   in_progress_votes, active_sessions, replicas, sched, tasks,
                   commit_order>>

\* after the handler has returned: the response is written
GetVoterDatabaseSend ==
    /\ rpc.pc = "get_db_send"
    /\ rpc' = Return([success |-> TRUE, voters |-> VotersSent(voters_db, rpc.local[1])])
    /\ UNCHANGED <<lamport_clock, clock_ret, voters_db, voting_active, voting_deadline,
                   results_published, active_votes, vote_queue, vote_counter,
                   in_progress_votes, active_sessions, replicas, sched, tasks,
                   commit_order>>

\* clients: Alice logs in and votes; anybody reads the voter database; a
\* replication of a vote or of a registration reaches all replicas or none;
\* registrations and administrative calls come before the first vote
EnvRead ==
    [logins |-> {<<"Alice", 1>>},
     seconds |-> {0},
     regNames |-> {"Zoe"},
     voteSessions |-> {SessionId(1, 0)},
     cands |-> {"Candidate A"},
     tss |-> {3},
     clicks |-> {1},
     deadlines |-> {2},
     adminOps |-> {"StartVote", "StopVote", "PublishResults"},
     acks |-> {Replicas, {}},
     adminAcks |-> {Replicas},
     maxVotes |-> MaxVotes,
     maxCounter |-> MaxCounter,
     maxClock |-> MaxClock,
     sequential |-> FALSE,
     orderedClicks |-> FALSE,
     relative |-> FALSE,
     setupFirst |-> TRUE]

NextRead ==
    \/ NextEnv(EnvRead)
    \/ GetVoterDatabaseCall
    \/ GetVoterDatabaseCopy
    \/ GetVoterDatabaseSend

SpecRead == Init /\ [][NextRead]_vars

\* clients: Alice and a new voter, Zoe, log in and vote; Zoe and Yan
\* register; a replication of a vote or of a registration reaches all
\* replicas or none; registrations and administrative calls come before the
\* first vote
EnvRegister ==
    [logins |-> {<<"Alice", 1>>, <<"Zoe", Len(InitialVoters) + 1>>},
     seconds |-> {0},
     regNames |-> {"Zoe", "Yan"},
     voteSessions |-> {SessionId(1, 0), SessionId(Len(InitialVoters) + 1, 0)},
     cands |-> {"Candidate A"},
     tss |-> {3},
     clicks |-> {1},
     deadlines |-> {2},
     adminOps |-> {"StartVote", "StopVote", "PublishResults"},
     acks |-> {Replicas, {}},
     adminAcks |-> {Replicas},
     maxVotes |-> MaxVotes,
     maxCounter |-> MaxCounter,
     maxClock |-> MaxClock,
     sequential |-> FALSE,
     orderedClicks |-> FALSE,
     relative |-> FALSE,
     setupFirst |-> TRUE]

NextRegister == NextEnv(EnvRegister)

SpecRegister == Init /\ [][NextRegister]_vars

----------------------------------------------------------------------------
(* Notions the properties share *)

\* the position of voter id in the registry (0 if there is none)
VoterIndex(id) ==
    IF \E k \in 1..Len(voters_db) : voters_db[k].id = id
    THEN CHOOSE k \in 1..Len(voters_db) : voters_db[k].id = id
    ELSE 0

Committed == Result(TRUE, "Vote recorded successfully")

Rejected(message) == Result(FALSE, message)

\* the vote threads started for voter id
TasksOf(id) == {i \in 1..Len(tasks) : GetSession(active_sessions, tasks[i].req[1]) # Nothing
                                      /\ active_sessions[tasks[i].req[1]].id = id}

\* the step of the RPC thread that ends a call
RpcReturns(pc) == rpc.pc = pc /\ rpc'.pc = "idle"

----------------------------------------------------------------------------
(* C6 *)

\* the state a Vote call must leave alone
VoteFrame == <<voters_db, in_progress_votes, active_votes, tasks, sched, replicas,
               voting_active, voting_deadline, results_published, active_sessions>>

\* C6: a Vote call with a valid candidate and a known session only enqueues:
\* its last step adds exactly one entry, built from the call's arguments and
\* the insertion counter, and answers "queued"; no step of the call touches
\* the registry, the in-progress set or any vote thread.
C6_VoteOnlyEnqueues ==
    [][ /\ (rpc.pc = "vote_push" /\ rpc' # rpc) =>
             /\ LET entry == <<rpc.args[3], rpc.local[1], vote_counter,
                               <<rpc.args[1], rpc.args[2], rpc.args[3], rpc.args[4]>> >>
                IN /\ entry \notin vote_queue
                   /\ vote_queue' = vote_queue \cup {entry}
                   /\ Cardinality(vote_queue') = Cardinality(vote_queue) + 1
             /\ rpc'.pc = "idle"
             /\ rpc'.result = Some(QueuedAck)
             /\ UNCHANGED VoteFrame
        /\ (rpc.pc = "vote_session" /\ rpc' # rpc) => UNCHANGED <<VoteFrame, vote_queue>>
        /\ (rpc.pc = "idle" /\ rpc'.pc = "vote_session") => UNCHANGED <<VoteFrame, vote_queue>>
      ]_vars

\* a call is acknowledged as queued while an earlier request is still in the
\* queue and the voter of the call has not voted
C6_Witness ==
    /\ rpc.pc = "idle"
    /\ rpc.result = Some(QueuedAck)
    /\ Cardinality(vote_queue) = 2
    /\ \A k \in 1..Len(voters_db) : ~voters_db[k].has_voted

----------------------------------------------------------------------------
(* C8 *)

\* C8: PublishResults, executed while voting is active, answers success =
\* FALSE and changes nothing of the coordinator or of the replicas.
C8_PublishRefusedWhileActive ==
    [][ (RpcReturns("publish") /\ voting_active) =>
           /\ rpc'.result = Some([success |-> FALSE,
                                  message |-> "Cannot publish results while voting is active"])
           /\ UNCHANGED <<lamport_clock, clock_ret, voters_db, voting_active,
                          voting_deadline, results_published, active_votes, vote_queue,
                          vote_counter, in_progress_votes, active_sessions, replicas,
                          sched, tasks, commit_order>>
      ]_vars

\* the refusal has been returned, voting still being active
C8_Witness ==
    /\ voting_active
    /\ rpc.pc = "idle"
    /\ rpc.result # Nothing
    /\ rpc.result[1] = [success |-> FALSE,
                        message |-> "Cannot publish results while voting is active"]

----------------------------------------------------------------------------
(* C9 *)

\* a step that runs _increment_lamport_clock
TickStep == rpc.pc = "idle" /\ rpc'.pc \in {"reg_db", "login_db", "vote_session"}

\* a step in which vote thread i runs _update_lamport_clock
ObserveStep(i) == i \in 1..Len(tasks) /\ tasks[i].pc = "clock" /\ tasks'[i].pc = "db"

\* C9: the counter never decreases; every tick returns the counter plus one;
\* every observe(t) returns a value above t and above the counter; so every
\* value returned is above the value returned before it (clock_ret), hence
\* above all earlier ones.
C9_ClockMonotonic ==
    [][ /\ lamport_clock' >= lamport_clock
        /\ clock_ret' >= clock_ret
        /\ clock_ret <= lamport_clock
        /\ TickStep =>
             /\ clock_ret' = lamport_clock + 1
             /\ lamport_clock' = clock_ret'
             /\ clock_ret' > clock_ret
        /\ \A i \in 1..Len(tasks) : ObserveStep(i) =>
             /\ clock_ret' > tasks[i].req[3]
             /\ clock_ret' > lamport_clock
             /\ clock_ret' > clock_ret
             /\ lamport_clock' = clock_ret'
             /\ clock_ret' = Max(lamport_clock, tasks[i].req[3]) + 1
      ]_vars

\* a vote thread has just merged a timestamp that was below the counter
C9_Witness ==
    \E i \in 1..Len(tasks) :
        /\ tasks[i].pc = "db"
        /\ clock_ret = lamport_clock
        /\ lamport_clock = tasks[i].req[3] + 2

----------------------------------------------------------------------------
(* C10 *)

\* C10: Register of a name that is in the registry answers success with the
\* id of the record of that name, and changes neither the registry nor any
\* replica; a Register that succeeds for a new name answers the id of the
\* record it appended, which is then the record of that name, so that a
\* second Register of the name answers the same id.
C10_RegisterIdempotent ==
    [][ /\ (rpc.pc = "reg_db" /\ rpc' # rpc
              /\ \E k \in 1..Len(voters_db) : voters_db[k].name = rpc.args[1]) =>
             /\ rpc'.pc = "idle"
             /\ \E k \in 1..Len(voters_db) :
                  /\ voters_db[k].name = rpc.args[1]
                  /\ rpc'.result = Some([success |-> TRUE, id |-> voters_db[k].id,
                                         message |-> "Voter already registered"])
             /\ UNCHANGED <<voters_db, replicas, vote_queue, active_sessions>>
        /\ (RpcReturns("reg_repl") /\ rpc'.result[1].success) =>
             /\ voters_db' = voters_db
             /\ \A k \in 1..Len(voters_db) :
                  voters_db[k].name = rpc.args[1] => voters_db[k].id = rpc'.result[1].id
             /\ \E k \in 1..Len(voters_db) : voters_db[k].name = rpc.args[1]
        /\ \A k \in 1..Len(voters_db) :
             k <= Len(voters_db') /\ voters_db'[k].name = voters_db[k].name
                => voters_db'[k].id = voters_db[k].id
      ]_vars

\* the new voter has registered twice: the second call found the record
C10_Witness ==
    /\ rpc.pc = "idle"
    /\ rpc.result = Some([success |-> TRUE, id |-> Len(InitialVoters) + 1,
                          message |-> "Voter already registered"])
    /\ Len(voters_db) = Len(InitialVoters) + 1

----------------------------------------------------------------------------
(* C1 *)

VoterIds == {voters_db[k].id : k \in 1..Len(voters_db)}

\* the voters of the registry for whom a vote thread was started
ThreadVoters ==
    {id \in {active_sessions[tasks[i].req[1]].id :
                i \in {j \in 1..Len(tasks) : tasks[j].req[1] \in DOMAIN active_sessions}} :
       id \in VoterIds}

CommittedTasksOf(id) == {i \in TasksOf(id) : tasks[i].result = Some(Committed)}

\* C1: for every voter at most one vote thread returns "recorded"; while one
\* has, the registry shows that voter as voted with that thread's candidate;
\* and when every thread of a voter was decided at the registry (recorded or
\* "Already voted"), exactly one of them recorded.
C1_AtMostOneCommit ==
    \A id \in ThreadVoters :
        /\ Cardinality(CommittedTasksOf(id)) <= 1
        /\ \A i \in CommittedTasksOf(id) :
             /\ voters_db[VoterIndex(id)].has_voted
             /\ voters_db[VoterIndex(id)].vote = tasks[i].req[2]
        /\ ( /\ TasksOf(id) # {}
             /\ \A i \in TasksOf(id) :
                  tasks[i].result \in {Some(Committed), Some(Rejected("Already voted"))} )
           => Cardinality(CommittedTasksOf(id)) = 1

\* two requests of Alice, from two sessions and for two candidates, were
\* both decided at the registry
C1_Witness ==
    \E i, j \in TasksOf(1) :
        /\ tasks[i].req[1] # tasks[j].req[1]
        /\ tasks[i].req[2] # tasks[j].req[2]
        /\ tasks[i].pc = "done" /\ tasks[j].pc = "done"
        /\ tasks[i].result = Some(Committed)
        /\ tasks[j].result = Some(Rejected("Already voted"))

----------------------------------------------------------------------------
(* C3 *)

\* vote thread i leaves position pc in this step
TaskLeaves(i, pc) == i \in 1..Len(tasks) /\ tasks[i].pc = pc /\ tasks'[i].pc # pc

\* C3: the replication step of a vote thread ends "recorded", the registry
\* unchanged, or "Replication failed", the voter reset to not voted with no
\* candidate and the other records unchanged; a voter reads voted only while
\* a thread of theirs has recorded or is replicating; and the registry step of a thread
\* whose voter reads not voted records the vote and goes on to replicate.
C3_RollbackThenRetry ==
    [][ /\ \A i \in 1..Len(tasks) : TaskLeaves(i, "repl") =>
             LET k == VoterIndex(tasks[i].voter_id[1])
             IN \/ /\ tasks'[i].result = Some(Committed)
                   /\ voters_db' = voters_db
                \/ /\ tasks'[i].result = Some(Rejected("Replication failed"))
                   /\ voters_db'[k].has_voted = FALSE
                   /\ voters_db'[k].vote = None
                   /\ voters_db' = [voters_db EXCEPT ![k] = voters_db'[k]]
        /\ \A k \in 1..Len(voters_db) :
             voters_db[k].has_voted =>
                \E i \in TasksOf(voters_db[k].id) :
                   tasks[i].result = Some(Committed) \/ tasks[i].pc = "repl"
        /\ \A i \in 1..Len(tasks) :
             (TaskLeaves(i, "db") /\ ~voters_db[VoterIndex(tasks[i].voter_id[1])].has_voted) =>
                LET k == VoterIndex(tasks[i].voter_id[1])
                IN /\ tasks'[i].pc = "repl"
                   /\ voters_db'[k].has_voted
                   /\ voters_db'[k].vote = tasks[i].req[2]
      ]_vars

\* a vote failed to replicate and the same vote, submitted again, was recorded
C3_Witness ==
    \E i, j \in TasksOf(1) :
        /\ i < j
        /\ tasks[i].req = tasks[j].req
        /\ tasks[i].result = Some(Rejected("Replication failed"))
        /\ tasks[j].result = Some(Committed)
        /\ voters_db[1].has_voted

----------------------------------------------------------------------------
(* C7 *)

\* C7 as stated: a Vote call that arrives after a finished vote thread has
\* recorded the vote of its voter, and that names another candidate, answers
\* success = FALSE.
C7_SecondVoteRefusedByCall ==
    [][ ( /\ RpcReturns("vote_push")
          /\ rpc.local[1] \in rpc.voted_before
          /\ voters_db[VoterIndex(rpc.local[1])].vote # rpc.args[2] )
        => rpc'.result[1].success = FALSE
      ]_vars

\* C7, amended: the call answers "queued"; the vote thread of a request whose
\* voter reads voted at the registry step ends "Already voted" and changes
\* neither the registry nor a replica.
C7_SecondVoteRefusedByTask ==
    [][ /\ RpcReturns("vote_push") => rpc'.result = Some(QueuedAck)
        /\ \A i \in 1..Len(tasks) :
             (TaskLeaves(i, "db") /\ voters_db[VoterIndex(tasks[i].voter_id[1])].has_voted) =>
                /\ tasks'[i].pc = "dec"
                /\ tasks'[i].result = Some(Rejected("Already voted"))
                /\ UNCHANGED <<voters_db, replicas, commit_order>>
      ]_vars

\* Alice's vote for one candidate was recorded; her next request, from the
\* same session for another candidate, was queued and then refused
C7_Witness ==
    \E i, j \in TasksOf(1) :
        /\ i < j
        /\ tasks[i].req[1] = tasks[j].req[1]
        /\ tasks[i].req[2] # tasks[j].req[2]
        /\ tasks[i].result = Some(Committed)
        /\ tasks[j].result = Some(Rejected("Already voted"))
        /\ voters_db[1].vote = tasks[i].req[2]

----------------------------------------------------------------------------
(* C4 *)

\* the requests of the scenario: Alice (voter 1) with timestamp 5, Bob
\* (voter 2) with timestamp 3
IsAlice5(vote_request) ==
    /\ GetSession(active_sessions, vote_request[1]) # Nothing
    /\ active_sessions[vote_request[1]].id = 1
    /\ vote_request[3] = 5

IsBob3(vote_request) ==
    /\ GetSession(active_sessions, vote_request[1]) # Nothing
    /\ active_sessions[vote_request[1]].id = 2
    /\ vote_request[3] = 3

\* C4 as stated: when a request of Alice with timestamp 5 and a request of
\* Bob with timestamp 3 have both been dispatched, Bob's was dispatched first.
C4_BobAdmittedFirst ==
    \A i, j \in 1..Len(tasks) :
        (IsAlice5(tasks[i].req) /\ IsBob3(tasks[j].req)) => j < i

\* the step in which the queue processor pops an entry
PopStep == sched.pc = "pop" /\ sched'.pc = "lookup"

\* C4, amended: a pop made while a request of Bob with timestamp 3 is in the
\* queue does not take a request of Alice with timestamp 5.
C4_BobPoppedFirstWhenQueued ==
    [][ (PopStep /\ \E e \in vote_queue : IsBob3(e[4])) => ~IsAlice5(sched'.req[1]) ]_vars

\* Bob's request has been popped while Alice's, enqueued before it, waits
C4_Witness ==
    /\ sched.pc = "lookup"
    /\ IsBob3(sched.req[1])
    /\ \E e \in vote_queue : IsAlice5(e[4]) /\ e[3] = 0
    /\ vote_counter = 2

----------------------------------------------------------------------------
(* C5 *)

\* the (timestamp, voter id) of a request, and its order
KeyOf(vote_request) == <<vote_request[3], active_sessions[vote_request[1]].id>>

KeyLeq(a, b) == a[1] < b[1] \/ (a[1] = b[1] /\ a[2] <= b[2])

\* the voters of all requests accepted so far are distinct
DistinctVoters ==
    /\ \A e, f \in vote_queue : e # f => e[2] # f[2]
    /\ \A i, j \in 1..Len(tasks) : i # j => KeyOf(tasks[i].req)[2] # KeyOf(tasks[j].req)[2]
    /\ \A e \in vote_queue : \A i \in 1..Len(tasks) : e[2] # KeyOf(tasks[i].req)[2]
    /\ sched.req # Nothing =>
         /\ \A e \in vote_queue : e[2] # KeyOf(sched.req[1])[2]
         /\ \A i \in 1..Len(tasks) : KeyOf(tasks[i].req)[2] # KeyOf(sched.req[1])[2]

\* C5 as stated: with distinct voters, the registry records the votes in
\* non-decreasing order of (timestamp, voter id).
C5_CommitOrderSorted ==
    DistinctVoters =>
        \A m, n \in 1..Len(commit_order) :
            m < n => KeyLeq(KeyOf(tasks[commit_order[m]].req), KeyOf(tasks[commit_order[n]].req))

\* C5, amended: every pop takes a request whose (timestamp, voter id) is at
\* most that of every request left in the queue.
C5_PopTakesLeastKey ==
    [][ PopStep =>
          /\ \E e \in vote_queue : vote_queue' = vote_queue \ {e} /\ sched'.req = Some(e[4])
          /\ \A f \in vote_queue' : KeyLeq(KeyOf(sched'.req[1]), KeyOf(f[4]))
      ]_vars

\* two voters were dispatched in the order of their keys and recorded in the
\* opposite order
C5_Witness ==
    /\ DistinctVoters
    /\ Len(tasks) = 2
    /\ KeyLeq(KeyOf(tasks[1].req), KeyOf(tasks[2].req))
    /\ KeyOf(tasks[1].req) # KeyOf(tasks[2].req)
    /\ commit_order = <<2, 1>>

----------------------------------------------------------------------------
(* C2 *)

\* the vote threads started and not finished
RunningTasks == {i \in 1..Len(tasks) : tasks[i].pc # "done"}

\* C2: at most max_concurrent_votes vote threads are started and unfinished,
\* and at most as many voters hold the in-progress mark.
C2_BudgetIsHardCap ==
    /\ Cardinality(RunningTasks) <= max_concurrent_votes
    /\ Cardinality(in_progress_votes) <= max_concurrent_votes

----------------------------------------------------------------------------
(* C11 *)

----------------------------------------------------------------------------
(* C12 *)

\* the state of the replicas after a replication that reached the replicas up
ReachedBy(up, operation, data) ==
    [p \in Replicas |-> IF p \in up THEN ReplicateUpdate(replicas[p], operation, data)
                                   ELSE replicas[p]]

\* C12: a replication runs ReplicateUpdate at every replica whose call goes
\* through, whatever happens to the calls to the others, and at no other; the
\* replication of a vote or of a registration succeeds if and only if at
\* least one replica was reached.
C12_ReplicateReachesAll ==
    [][ /\ \A i \in 1..Len(tasks) : TaskLeaves(i, "repl") =>
             /\ replicas' = ReachedBy(tasks'[i].up, "vote",
                                      [voter_id |-> tasks[i].voter_id[1],
                                       candidate |-> tasks[i].req[2],
                                       timestamp |-> tasks[i].req[3]])
             /\ (tasks'[i].result = Some(Committed)) <=> (tasks'[i].up # {})
             /\ (tasks'[i].result = Some(Rejected("Replication failed"))) <=> (tasks'[i].up = {})
        /\ RpcReturns("reg_repl") =>
             /\ replicas' = ReachedBy(rpc'.up, "register", rpc.local[1])
             /\ rpc'.result[1].success <=> (rpc'.up # {})
        /\ RpcReturns("set_timer") =>
             replicas' = ReachedBy(rpc'.up, "set_timer", [end_time |-> rpc.args[1]])
        /\ RpcReturns("start_vote") => replicas' = ReachedBy(rpc'.up, "start_vote", << >>)
        /\ RpcReturns("stop_vote") => replicas' = ReachedBy(rpc'.up, "stop_vote", << >>)
      ]_vars

\* the call to the first replica failed, the second replica took the vote,
\* and the vote was recorded
C12_Witness ==
    \E i \in 1..Len(tasks) :
        /\ tasks[i].up = {replica_ports[2]}
        /\ tasks[i].result = Some(Committed)
        /\ replicas[replica_ports[2]].voters_db[1].has_voted
        /\ ~replicas[replica_ports[1]].voters_db[1].has_voted

----------------------------------------------------------------------------
(* C13 *)

\* a step of a Vote call whose session id the session store does not hold:
\* the step that opens the call, and the step that looks the session up
OpensUnknownSessionVote ==
    /\ rpc.pc = "idle"
    /\ rpc'.pc = "vote_session"
    /\ rpc'.args[1] \notin DOMAIN active_sessions

EndsUnknownSessionVote ==
    /\ rpc.pc = "vote_session"
    /\ rpc' # rpc
    /\ rpc.args[1] \notin DOMAIN active_sessions

\* C13 as stated: such a call answers success = FALSE and none of its steps
\* changes the queue, the insertion counter, the registry, the in-progress
\* set or the logical clock.
C13_UnknownSessionNoEffect ==
    [][ /\ (OpensUnknownSessionVote \/ EndsUnknownSessionVote) =>
              UNCHANGED <<vote_queue, vote_counter, voters_db, in_progress_votes,
                          lamport_clock>>
        /\ EndsUnknownSessionVote => (rpc'.pc = "idle" /\ ~rpc'.result[1].success)
      ]_vars

\* C13, amended: such a call answers success = FALSE ("Invalid session" when
\* the candidate is valid) and none of its steps changes the queue, the
\* insertion counter, the registry, the in-progress set, the sessions or the
\* vote threads; its first step advances the logical clock by one.
C13_UnknownSessionOnlyTicks ==
    [][ /\ (OpensUnknownSessionVote \/ EndsUnknownSessionVote) =>
              UNCHANGED <<vote_queue, vote_counter, voters_db, in_progress_votes,
                          active_sessions, tasks, sched, replicas>>
        /\ OpensUnknownSessionVote => lamport_clock' = lamport_clock + 1
        /\ EndsUnknownSessionVote =>
              /\ lamport_clock' = lamport_clock
              /\ rpc'.pc = "idle"
              /\ ~rpc'.result[1].success
              /\ rpc.args[2] \in SeqToSet(candidates)
                    => rpc'.result = Some(Rejected("Invalid session"))
      ]_vars

\* a vote from a session nobody opened was refused while Alice's session was
\* open and her request waited in the queue
C13_Witness ==
    /\ rpc.pc = "idle"
    /\ rpc.result = Some(Rejected("Invalid session"))
    /\ DOMAIN active_sessions # {}
    /\ vote_queue # {}

----------------------------------------------------------------------------
(* C14 *)

\* every record of the registry is either not voted and without a candidate,
\* or voted with a candidate of the list
RegistryWellFormed(db) ==
    \A k \in 1..Len(db) :
        IF db[k].has_voted THEN db[k].vote \in SeqToSet(candidates)
                           ELSE db[k].vote = None

\* the requests the coordinator holds: queued, held by the queue processor,
\* or given to a vote thread
HeldRequests ==
    {e[4] : e \in vote_queue}
       \cup {tasks[i].req : i \in 1..Len(tasks)}
       \cup (IF sched.req = Nothing THEN {} ELSE {sched.req[1]})

\* C14: in every state the registry is well formed and every request held
\* names a candidate of the list; a Vote call for any other candidate
\* answers "Invalid candidate" and leaves the queue as it is.
C14_CandidateOfTheList ==
    [][ /\ RegistryWellFormed(voters_db)
        /\ RegistryWellFormed(voters_db')
        /\ \A r \in HeldRequests : r[2] \in SeqToSet(candidates)
        /\ (rpc.pc = "vote_session" /\ rpc' # rpc /\ rpc.args[2] \notin SeqToSet(candidates)) =>
              /\ rpc' = Return(Rejected("Invalid candidate"))
              /\ UNCHANGED <<vote_queue, vote_counter>>
      ]_vars

\* a vote for somebody who is no candidate was refused after Alice's vote
\* for a candidate of the list had been recorded
C14_Witness ==
    /\ rpc.pc = "idle"
    /\ rpc.result = Some(Rejected("Invalid candidate"))
    /\ voters_db[1].has_voted
    /\ voters_db[1].vote = "Candidate A"
    /\ \E i \in 1..Len(tasks) : tasks[i].result = Some(Committed)

----------------------------------------------------------------------------
(* C15 *)

----------------------------------------------------------------------------
(* C16 *)

\* C16: a Login that succeeds returns a session id that no earlier Login
\* returned (the ids returned so far are the keys of the session store, from
\* which nothing is ever removed).
C16_SessionIdsUnique ==
    [][ (RpcReturns("login_db") /\ rpc'.result[1].success) =>
           rpc'.result[1].session_id \notin DOMAIN active_sessions
      ]_vars

----------------------------------------------------------------------------
(* C17 *)

\* the running vote threads of voter id
RunningTasksOf(id) == TasksOf(id) \cap RunningTasks

\* at most one vote thread runs for a voter, and the voter of a running
\* thread, or of a request about to be started, holds the mark
OneRunningPerVoter ==
    /\ \A id \in ThreadVoters :
         /\ Cardinality(RunningTasksOf(id)) <= 1
         /\ RunningTasksOf(id) # {} => id \in in_progress_votes
    /\ sched.pc = "start" =>
         /\ sched.voter_id[1] \in in_progress_votes
         /\ RunningTasksOf(sched.voter_id[1]) = {}

\* C17: at most one vote thread runs for a voter at any time; the queue
\* processor goes on to start a thread only for a voter without the mark,
\* setting the mark in the same step, and requeues the request of a voter
\* with the mark; the mark is held until the thread has ended.
C17_OneTaskPerVoter ==
    [][ /\ OneRunningPerVoter
        /\ OneRunningPerVoter'
        /\ (sched.pc = "guard" /\ sched'.pc = "start") =>
              /\ sched.voter_id[1] \notin in_progress_votes
              /\ in_progress_votes' = in_progress_votes \cup {sched.voter_id[1]}
        /\ (sched.pc = "guard" /\ sched' # sched /\ sched.voter_id[1] \in in_progress_votes) =>
              /\ sched'.pc = "sleep_ip"
              /\ UNCHANGED <<in_progress_votes, tasks>>
        /\ \A i \in 1..Len(tasks) :
              (tasks[i].pc # "done" /\ tasks[i].voter_id # Nothing
                 /\ tasks[i].voter_id[1] \notin in_progress_votes') => tasks'[i].pc = "done"
      ]_vars

\* a request of Alice has been put back into the queue because an earlier
\* vote thread of hers is still running
C17_Witness ==
    /\ sched.pc = "sleep_ip"
    /\ RunningTasksOf(1) # {}
    /\ \E e \in vote_queue : e[2] = 1 /\ e[3] = 2

----------------------------------------------------------------------------
(* C18 *)

\* entry e is before entry f: earlier timestamp, then lower voter id, then
\* lower insertion counter
KeyBefore(e, f) ==
    \/ e[1] < f[1]
    \/ e[1] = f[1] /\ e[2] < f[2]
    \/ e[1] = f[1] /\ e[2] = f[2] /\ e[3] < f[3]

\* C18: a pop removes one entry, which is before every other entry of the
\* queue; every push takes the insertion counter as the entry's counter and
\* adds one to it, so the counters of the queued entries differ and are
\* below the insertion counter.
C18_PopTakesMinimum ==
    [][ /\ PopStep =>
              \E e \in vote_queue :
                 /\ vote_queue' = vote_queue \ {e}
                 /\ sched'.req = Some(e[4])
                 /\ \A f \in vote_queue \ {e} : KeyBefore(e, f)
        /\ \A e, f \in vote_queue : e # f => e[3] # f[3]
        /\ \A e \in vote_queue : e[3] < vote_counter
        /\ vote_counter' >= vote_counter
        /\ (vote_queue' \ vote_queue) # {} =>
              /\ \E e \in vote_queue' : vote_queue' = vote_queue \cup {e} /\ e[3] = vote_counter
              /\ vote_counter' = vote_counter + 1
      ]_vars

\* Alice's request was popped before Bob's, which has the same timestamp and
\* was enqueued first
C18_Witness ==
    /\ sched.pc = "lookup"
    /\ sched.req[1][1] = SessionId(1, 0)
    /\ \E e \in vote_queue : e[2] = 2 /\ e[3] = 0 /\ e[1] = sched.req[1][3]

----------------------------------------------------------------------------
(* C20 *)

\* the requests the coordinator holds, counted: queued entries, the request
\* in the hands of the queue processor, vote threads started
NumHeld ==
    Cardinality(vote_queue) + Len(tasks) + (IF sched.req = Nothing THEN 0 ELSE 1)

\* C20: the number of requests held grows by one with every accepted
\* submission and never changes otherwise; a pop moves one entry's request
\* to the queue processor, which keeps it through the lookup and either puts
\* it back as one new entry (same request, the voter's id, the insertion
\* counter) or marks the voter and starts exactly one thread with it; the
\* request of a thread never changes.
C20_ConsumedExactlyOnce ==
    [][ /\ NumHeld' = NumHeld + (IF RpcReturns("vote_push") THEN 1 ELSE 0)
        /\ PopStep =>
              /\ \E e \in vote_queue : vote_queue' = vote_queue \ {e} /\ sched'.req = Some(e[4])
              /\ tasks' = tasks
        /\ (sched.pc = "lookup" /\ sched' # sched) =>
              /\ sched'.pc = "guard"
              /\ sched'.req = sched.req
              /\ UNCHANGED <<vote_queue, tasks>>
        /\ (sched.pc = "guard" /\ sched'.pc = "start") =>
              /\ sched'.req = sched.req
              /\ UNCHANGED <<vote_queue, tasks>>
        /\ (sched.pc = "guard" /\ sched'.pc = "sleep_ip") =>
              LET entry == <<sched.req[1][3], sched.voter_id[1], vote_counter, sched.req[1]>>
              IN /\ entry \notin vote_queue
                 /\ vote_queue' = vote_queue \cup {entry}
                 /\ vote_counter' = vote_counter + 1
                 /\ tasks' = tasks
        /\ (sched.pc = "start" /\ sched' # sched) =>
              /\ Len(tasks') = Len(tasks) + 1
              /\ tasks'[Len(tasks')].req = sched.req[1]
              /\ SubSeq(tasks', 1, Len(tasks)) = tasks
              /\ UNCHANGED vote_queue
        /\ Len(tasks') >= Len(tasks)
        /\ \A i \in 1..Len(tasks) : tasks'[i].req = tasks[i].req
      ]_vars

\* two requests of Alice were accepted; the second was put back once and
\* then started; both threads have ended and nothing is left in the queue
C20_Witness ==
    /\ vote_counter = 3
    /\ vote_queue = {}
    /\ sched.req = Nothing
    /\ Len(tasks) = 2
    /\ \A i \in 1..Len(tasks) : tasks[i].pc = "done"

----------------------------------------------------------------------------
(* C19 *)

\* vote threads i and j were started for requests of the same timestamp and
\* voter, i before j
SameKeyInOrder(i, j) ==
    /\ i < j
    /\ tasks[i].req[3] = tasks[j].req[3]
    /\ KeyOf(tasks[i].req) = KeyOf(tasks[j].req)

----------------------------------------------------------------------------
(* C23 *)

\* what a vote thread returns when it ends before it has recorded the vote
Refusals ==
    {Rejected("Invalid session"), Rejected("Voting is not active"),
     Rejected("Vote submitted after deadline"), Rejected("Voter not found"),
     Rejected("Already voted")}

\* vote thread i has returned one of these
Refused(i) == tasks[i].result # Nothing /\ tasks[i].result[1] \in Refusals

\* C23: no step of a vote thread that ends with one of the five refusals
\* changes the registry or a replica: the steps before the registry step
\* change neither, the step that refuses and the steps after it change
\* neither, a thread that has refused never recorded a vote and never
\* replicated, and a thread whose voter reads voted at the registry step
\* refuses with "Already voted".
C23_RefusalLeavesRegistry ==
    [][ \A i \in 1..Len(tasks) :
           /\ (tasks'[i] # tasks[i]
                 /\ tasks[i].pc \in {"lookup", "inc", "mark", "chk_active", "chk_deadline", "clock"})
                => UNCHANGED <<voters_db, replicas>>
           /\ (tasks'[i] # tasks[i] /\ Refused(i)')
                => UNCHANGED <<voters_db, replicas, commit_order>>
           /\ Refused(i) =>
                /\ tasks[i].up = {}
                /\ \A n \in 1..Len(commit_order) : commit_order[n] # i
                /\ tasks[i].pc \in {"dec", "unmark", "done"}
                /\ tasks'[i].result = tasks[i].result
           /\ (TaskLeaves(i, "db") /\ voters_db[VoterIndex(tasks[i].voter_id[1])].has_voted)
                => tasks'[i].result = Some(Rejected("Already voted"))
      ]_vars

\* Alice's first vote was recorded; her second request, clicked after the
\* deadline, was refused for that and the record is as the first left it
C23_Witness ==
    /\ Len(tasks) = 2
    /\ tasks[1].result = Some(Committed)
    /\ tasks[2].result = Some(Rejected("Vote submitted after deadline"))
    /\ tasks[2].pc = "done"
    /\ voters_db = RecordVote(InitialVoters, 1, "Candidate A")
    /\ \A p \in Replicas : replicas[p].voters_db = RecordVote(InitialVoters, 1, "Candidate A")

----------------------------------------------------------------------------
(* C24 *)

\* C24: the deadline check of a vote thread refuses the request ("Vote
\* submitted after deadline") if and only if a deadline has been set and the
\* click time of the request is above it, whenever the check is made; with
\* no deadline set it refuses nothing.
C24_DeadlineByClickTime ==
    [][ \A i \in 1..Len(tasks) : TaskLeaves(i, "chk_deadline") =>
           /\ (tasks'[i].result = Some(Rejected("Vote submitted after deadline")))
                 <=> (voting_deadline # Nothing /\ tasks[i].req[4] > voting_deadline[1])
           /\ tasks'[i].result = Nothing <=> tasks'[i].pc = "clock"
      ]_vars

\* the same for every deadline but 0, which the check takes for "not set"
DeadlineByClickTimeNonZero ==
    [][ \A i \in 1..Len(tasks) : (TaskLeaves(i, "chk_deadline") /\ voting_deadline # Some(0)) =>
           /\ (tasks'[i].result = Some(Rejected("Vote submitted after deadline")))
                 <=> (voting_deadline # Nothing /\ tasks[i].req[4] > voting_deadline[1])
           /\ tasks'[i].result = Nothing <=> tasks'[i].pc = "clock"
      ]_vars

----------------------------------------------------------------------------
(* C25 *)

\* C25: every tick, whatever the other threads do around it, sets the
\* counter to its value plus one and returns that; a step that is neither a
\* tick nor an observe leaves the counter alone.  Hence k ticks with no
\* observe between them return the k values c+1 .. c+k, c the counter before
\* the first, and leave the counter at c+k.
C25_NoLostTicks ==
    [][ /\ TickStep =>
              /\ lamport_clock' = lamport_clock + 1
              /\ clock_ret' = lamport_clock + 1
        /\ (~TickStep /\ \A i \in 1..Len(tasks) : ~ObserveStep(i)) =>
              UNCHANGED <<lamport_clock, clock_ret>>
      ]_vars

\* three calls have ticked, the third while the queue processor held a
\* request, and no vote thread has run yet
C25_Witness ==
    /\ lamport_clock = 3
    /\ clock_ret = 3
    /\ tasks = << >>
    /\ sched.pc = "lookup"
    /\ rpc.pc = "vote_session"

----------------------------------------------------------------------------
(* C26 *)

\* The locks a thread holds between two of its steps, that is, while it
\* sleeps or waits for a replication call to return.  (session_lock and
\* clock_lock are taken and released within one step, as is the db_lock of
\* Login, which takes session_lock inside it and makes no blocking call.)
SchedLocks ==
    (IF QueueLocked THEN {"vote_queue_lock"} ELSE {})
       \cup (IF InProgressLocked THEN {"in_progress_lock"} ELSE {})

TaskLocks(i) == IF tasks[i].pc = "repl" THEN {"db_lock"} ELSE {}

RpcLocks == IF rpc.pc = "reg_repl" THEN {"db_lock"} ELSE {}

\* C26: the queue processor asleep, a vote thread replicating and the RPC
\* thread replicating each hold at most one lock; the queue processor holds
\* one only while it sleeps; db_lock is the lock held over replication, by
\* one thread at a time; the administrative calls replicate holding none.
C26_OneLockWhileBlocked ==
    /\ Cardinality(SchedLocks) <= 1
    /\ SchedLocks # {} => sched.pc \in {"sleep_q", "sleep_ip"}
    /\ \A i \in 1..Len(tasks) : Cardinality(TaskLocks(i)) <= 1
    /\ Cardinality(RpcLocks) <= 1
    /\ DbLocked <=> (RpcLocks # {} \/ \E i \in 1..Len(tasks) : TaskLocks(i) # {})
    /\ Cardinality({i \in 1..Len(tasks) : TaskLocks(i) # {}})
          + Cardinality(RpcLocks) <= 1
    /\ rpc.pc \in {"set_timer", "start_vote", "stop_vote"} => RpcLocks = {}

\* the queue processor sleeps after a requeue, holding the in-progress lock,
\* while a vote thread replicates, holding the registry lock, and a
\* Register call waits for that lock
C26_Witness ==
    /\ sched.pc = "sleep_ip"
    /\ SchedLocks = {"in_progress_lock"}
    /\ \E i \in 1..Len(tasks) : TaskLocks(i) = {"db_lock"}
    /\ rpc.pc = "reg_db"

----------------------------------------------------------------------------
(* C28 *)

\* C28: a call of ReplicateUpdate that repeats the call before it (same
\* replica, same operation, same vote or register record) leaves the replica
\* as it is and answers TRUE; and at every state of a replica, applying any
\* vote or register record twice gives what applying it once gives.
C28_ReplicaIdempotent ==
    [][ /\ (rpc.op = "ReplicateUpdate" /\ rpc'.op = "ReplicateUpdate" /\ rpc'.args = rpc.args) =>
              /\ replicas' = replicas
              /\ rpc'.result = Some(TRUE)
        /\ \A p \in Replicas :
              /\ \A data \in VoteRecords :
                    ReplicateUpdate(ReplicateUpdate(replicas[p], "vote", data), "vote", data)
                      = ReplicateUpdate(replicas[p], "vote", data)
              /\ \A data \in RegisterRecords :
                    ReplicateUpdate(ReplicateUpdate(replicas[p], "register", data), "register", data)
                      = ReplicateUpdate(replicas[p], "register", data)
        /\ rpc'.op = "ReplicateUpdate" => rpc'.result = Some(TRUE)
      ]_vars

\* the register record of Zoe was delivered to a replica, then her vote, then
\* the register record again: the replica holds one record of her, voted
C28_Witness ==
    \E p \in Replicas :
        /\ rpc.op = "ReplicateUpdate"
        /\ rpc.args[1] = p
        /\ rpc.args[2] = "register"
        /\ rpc.args[3].name = "Zoe"
        /\ rpc.result = Some(TRUE)
        /\ Len(replicas[p].voters_db) = Len(InitialVoters) + 1
        /\ replicas[p].voters_db[Len(InitialVoters) + 1]
              = [id |-> Len(InitialVoters) + 1, name |-> "Zoe", has_voted |-> TRUE,
                 vote |-> "Candidate A"]

----------------------------------------------------------------------------
(* C29 *)

\* C29: a step that turns a voter of the registry from not voted to voted is
\* taken in a state where voting is active (and leaves it active).
C29_CommitOnlyWhileActive ==
    [][ \A k \in 1..Len(voters_db) :
           (k <= Len(voters_db') /\ ~voters_db[k].has_voted /\ voters_db'[k].has_voted)
              => (voting_active /\ voting_active')
      ]_vars

----------------------------------------------------------------------------
(* C30 *)

\* replica p records voter id as voted for candidate
ReplicaRecords(p, id, candidate) ==
    \E k \in 1..Len(replicas[p].voters_db) :
        /\ replicas[p].voters_db[k].id = id
        /\ replicas[p].voters_db[k].has_voted
        /\ replicas[p].voters_db[k].vote = candidate

\* C30: when a vote thread has returned "recorded", some replica records its
\* voter as voted for its candidate.
C30_CommittedIsOnAReplica ==
    \A i \in 1..Len(tasks) :
        tasks[i].result = Some(Committed) =>
           \E p \in Replicas : ReplicaRecords(p, tasks[i].voter_id[1], tasks[i].req[2])

----------------------------------------------------------------------------
(* C21 *)

\* the step in which the queue processor puts the request it holds back
RequeueStep == sched.pc = "guard" /\ sched'.pc = "sleep_ip"

\* C21: a requeue made while the request of a voter who is not in progress
\* waits in the queue yields to the waiting requests: the entry put back is
\* not the one the next pop takes, so that the queue processor goes on to
\* the other voters while the thread of the voter in progress runs.
C21_RequeueYieldsToOthers ==
    [][ (RequeueStep /\ \E f \in vote_queue : f[2] \notin in_progress_votes) =>
           \E e \in vote_queue' \ vote_queue :
              /\ e[4] = sched.req[1]
              /\ \E f \in vote_queue : KeyBefore(f, e)
      ]_vars

----------------------------------------------------------------------------
(* C27 *)

\* nothing is queued, held by the queue processor, marked or running
Quiet ==
    /\ vote_queue = {}
    /\ sched.req = Nothing
    /\ in_progress_votes = {}
    /\ \A i \in 1..Len(tasks) : tasks[i].pc = "done"

TasksStronglyFair == \A i \in 1..MaxVotes : SF_vars(TaskAny(EnvLive, i))

----------------------------------------------------------------------------
(* C22 *)

\* the voter of vote thread i
Voter(i) == tasks[i].voter_info[1].id

\* C22: the voter of a vote thread holds the mark from the start of the
\* thread to its last step, whatever the thread returns; the last step of
\* the thread clears the mark, and only that step removes a mark; and, a
\* thread that waits for a lock getting it when the lock is free again and
\* again, every mark is cleared in the end, the queue processor then being
\* free to mark the voter for a later request.
C22_MarkClearedOnEveryExit ==
    /\ [][ /\ \A i \in 1..Len(tasks) :
                /\ (tasks[i].pc \notin {"lookup", "done"}) => Voter(i) \in in_progress_votes
                /\ (tasks[i].pc # "done" /\ tasks'[i].pc = "done") =>
                      /\ tasks[i].pc = "unmark"
                      /\ tasks[i].result # Nothing
                      /\ Voter(i) \in in_progress_votes
                      /\ in_progress_votes' = in_progress_votes \ {Voter(i)}
           /\ (in_progress_votes \ in_progress_votes') # {} =>
                 \E i \in 1..Len(tasks) : tasks[i].pc = "unmark" /\ tasks'[i].pc = "done"
       ]_vars
    /\ TasksStronglyFair =>
          \A id \in {cred[2] : cred \in EnvLive.logins} :
             (id \in in_progress_votes) ~> (id \notin in_progress_votes)

\* Alice's first thread was refused because the vote was not open, her
\* second recorded the vote; both have ended and no mark is left
C22_Witness ==
    /\ Len(tasks) = 2
    /\ tasks[1].pc = "done" /\ tasks[2].pc = "done"
    /\ tasks[1].result = Some(Rejected("Voting is not active"))
    /\ tasks[2].result = Some(Committed)
    /\ in_progress_votes = {}

----------------------------------------------------------------------------
(* C31 *)

\* the response the RPC thread sent last, while no later call has arrived
LastResponse == IF rpc.pc = "idle" /\ rpc.result # Nothing THEN rpc.result ELSE Nothing

\* voter id has no recorded vote: a flag that was seen set for this voter was
\* that of a vote whose replication failed and which was rolled back
VoteUndone(id) ==
    /\ VoterIndex(id) # 0
    /\ ~voters_db[VoterIndex(id)].has_voted

\* a Login response or a refusal of a vote thread reports a vote that was undone
LockedReadSawUndoneVote ==
    \/ /\ LastResponse # Nothing
       /\ "has_voted" \in DOMAIN LastResponse[1]
       /\ LastResponse[1].has_voted
       /\ VoteUndone(LastResponse[1].session_id[1])
    \/ \E i \in 1..Len(tasks) :
          /\ tasks[i].result = Some(Rejected("Already voted"))
          /\ VoteUndone(tasks[i].voter_info[1].id)

\* a GetVoterDatabase response reports a vote that was undone
DatabaseReadSawUndoneVote ==
    /\ LastResponse # Nothing
    /\ "voters" \in DOMAIN LastResponse[1]
    /\ \E k \in 1..Len(LastResponse[1].voters) :
          /\ LastResponse[1].voters[k].has_voted
          /\ VoteUndone(LastResponse[1].voters[k].id)

\* C31: no reader of the registry (the Login response, the GetVoterDatabase
\* response, the AlreadyVoted check of another vote thread) observes
\* has_voted = true for a vote whose replication then fails and which is
\* rolled back.
C31_UncommittedNeverVisible ==
    ~LockedReadSawUndoneVote /\ ~DatabaseReadSawUndoneVote

\* what does hold: Login and the vote threads, which read the flag inside
\* `with self.db_lock`, never see a vote that is rolled back later
UncommittedHiddenFromLockedReads == ~LockedReadSawUndoneVote

----------------------------------------------------------------------------
(* C32 *)

\* The locks the next step of a thread takes, as chains of nested `with`
\* blocks, the outer lock first.  A lock a thread already holds (db_lock over
\* a replication call) is not in the chains of its next step.

\* a slip: Vote consults the in-progress set while it holds the queue lock
RpcChainsGuardedPush ==
    CASE rpc.pc = "idle" -> {<<"clock_lock">>}
      [] rpc.pc = "reg_db" -> {<<"db_lock">>}
      [] rpc.pc = "reg_repl" -> {<<"notification_lock">>}
      [] rpc.pc = "login_db" -> {<<"db_lock", "session_lock">>, <<"db_lock", "notification_lock">>}
      [] rpc.pc = "vote_session" -> {<<"session_lock">>}
      [] rpc.pc = "vote_push" -> {<<"vote_queue_lock", "in_progress_lock">>, <<"notification_lock">>}
      [] rpc.pc \in {"set_timer", "start_vote", "stop_vote"} -> {<<"notification_lock">>}
      [] rpc.pc = "publish" -> IF PublishRefused(voting_active) THEN {} ELSE {<<"db_lock">>}
      [] rpc.pc = "get_db" -> {<<"db_lock">>}
      [] OTHER -> {}

\* the RPC thread: Register, Login, Vote and the administrative handlers
RpcChains ==
    CASE rpc.pc = "idle" -> {<<"clock_lock">>}
      [] rpc.pc = "reg_db" -> {<<"db_lock">>}
      [] rpc.pc = "reg_repl" -> {<<"notification_lock">>}
      [] rpc.pc = "login_db" -> {<<"db_lock", "session_lock">>, <<"db_lock", "notification_lock">>}
      [] rpc.pc = "vote_session" -> {<<"session_lock">>}
      [] rpc.pc = "vote_push" -> {<<"vote_queue_lock">>, <<"notification_lock">>}
      [] rpc.pc \in {"set_timer", "start_vote", "stop_vote"} -> {<<"notification_lock">>}
      [] rpc.pc = "publish" -> IF PublishRefused(voting_active) THEN {} ELSE {<<"db_lock">>}
      [] rpc.pc = "get_db" -> {<<"db_lock">>}
      [] OTHER -> {}

\* the queue processor
SchedChains ==
    CASE sched.pc = "pop" -> {<<"vote_queue_lock">>}
      [] sched.pc = "lookup" -> {<<"session_lock">>, <<"notification_lock">>}
      [] sched.pc = "guard" ->
            IF VoterInProgress(sched.voter_id[1], in_progress_votes)
            THEN {<<"in_progress_lock", "vote_queue_lock">>}
            ELSE {<<"in_progress_lock">>}
      [] OTHER -> {}

\* vote thread i
TaskChains(i) ==
    CASE tasks[i].pc = "lookup" -> {<<"session_lock">>}
      [] tasks[i].pc \in {"inc", "dec"} -> {<<"vote_lock">>}
      [] tasks[i].pc \in {"mark", "unmark"} ->
            IF tasks[i].voter_id = Nothing THEN {} ELSE {<<"in_progress_lock">>}
      [] tasks[i].pc = "clock" -> {<<"clock_lock">>}
      [] tasks[i].pc = "db" -> {<<"db_lock">>}
      [] tasks[i].pc = "repl" -> {<<"notification_lock">>}
      [] OTHER -> {}

Threads == {<<"rpc", 0>>, <<"sched", 0>>} \cup {<<"task", i>> : i \in 1..Len(tasks)}

Chains(t) ==
    CASE t[1] = "rpc" -> RpcChains
      [] t[1] = "sched" -> SchedChains
      [] OTHER -> TaskChains(t[2])

\* the locks thread t holds between two of its steps
Held(t) ==
    CASE t[1] = "rpc" -> RpcLocks
      [] t[1] = "sched" -> SchedLocks
      [] OTHER -> TaskLocks(t[2])

\* thread t cannot take its next step before thread u releases a lock
WaitsFor(t, u) ==
    /\ t # u
    /\ \E c \in Chains(t) : \E k \in 1..Len(c) : c[k] \in Held(u)

Blocked(t) == \E u \in Threads : WaitsFor(t, u)

\* the pairs <<a, b>> such that a thread may hold lock a while it asks for
\* lock b: inside one step (nested `with` blocks) or between two steps
Nested(c) ==
    {<<c[p[1]], c[p[2]]>> : p \in {q \in (1..Len(c)) \X (1..Len(c)) : q[1] < q[2]}}

LockOrderOf(t) ==
    UNION {Nested(c) \cup {<<h, c[k]>> : h \in Held(t), k \in 1..Len(c)} : c \in Chains(t)}

LockOrder == UNION {LockOrderOf(t) : t \in Threads}

\* the nested acquisitions of the coordinator
NestedAcquisitions ==
    {<<"db_lock", "session_lock">>, <<"db_lock", "notification_lock">>,
     <<"in_progress_lock", "vote_queue_lock">>}

\* no set of locks in which every lock is asked for by a holder of another
LockOrderAcyclic ==
    LET order == LockOrder
    IN \A L \in SUBSET {e[2] : e \in order} :
          L # {} => \E b \in L : \A a \in L : <<a, b>> \notin order

\* no set of threads each of which waits for a lock another of them holds
NoCyclicWait ==
    \A S \in SUBSET {t \in Threads : Blocked(t)} :
       S # {} => \E t \in S : \A u \in S : ~WaitsFor(t, u)

\* the insertion counter is below the bound of the instance
CounterLeft == vote_counter < EnvRead.maxCounter

\* the locks that are held over more than one step
LongLocks == {"db_lock", "vote_queue_lock", "in_progress_lock"}

TakesLongLock(t) == \E c \in Chains(t) : \E k \in 1..Len(c) : c[k] \in LongLocks

\* a thread whose next step takes one of these locks can take the step
\* exactly if no other thread holds a lock the step takes (and, for a push,
\* the bounded counter permits it)
StepsWaitOnlyForLocks ==
    /\ TakesLongLock(<<"rpc", 0>>) =>
          ((ENABLED (RpcStep(EnvRead) \/ GetVoterDatabaseCopy))
             <=> (~Blocked(<<"rpc", 0>>) /\ (rpc.pc = "vote_push" => CounterLeft)))
    /\ sched.pc = "guard" =>
          ((ENABLED SchedGuard(EnvRead))
             <=> (~Blocked(<<"sched", 0>>)
                    /\ (VoterInProgress(sched.voter_id[1], in_progress_votes) => CounterLeft)))
    /\ \A i \in 1..Len(tasks) :
          TakesLongLock(<<"task", i>>) =>
             ((ENABLED TaskAny(EnvRead, i)) <=> ~Blocked(<<"task", i>>))

\* C32: the coordinator is deadlock-free.  In every reachable state no set of
\* threads (queue processor, vote threads, RPC thread) wait for each other's
\* locks; the locks taken while another is held are only registry -> session,
\* registry -> notification and in-progress -> queue, which has no cycle; a
\* thread that holds a lock waits for none, and a thread is stopped by
\* nothing but a lock that another thread holds.
C32_NoCyclicWait ==
    /\ NoCyclicWait
    /\ LockOrder \subseteq NestedAcquisitions
    /\ LockOrderAcyclic
    /\ \A t \in Threads : Held(t) # {} => ~Blocked(t)
    /\ StepsWaitOnlyForLocks

\* Alice's vote thread replicates, holding the registry lock, for which a
\* GetVoterDatabase call waits; the queue processor sleeps after requeuing
\* Alice's second request, holding the in-progress lock
C32_Witness ==
    /\ Len(tasks) = 1
    /\ tasks[1].pc = "repl"
    /\ rpc.pc = "get_db"
    /\ WaitsFor(<<"rpc", 0>>, <<"task", 1>>)
    /\ sched.pc = "sleep_ip"
    /\ Held(<<"sched", 0>>) = {"in_progress_lock"}
    /\ vote_queue # {}

----------------------------------------------------------------------------
(* C33 *)

\* the session ids of the requests in the queue, in the hands of the queue
\* processor, and of the vote threads
RequestSessions ==
    {e[4][1] : e \in vote_queue}
       \cup (IF sched.req = Nothing THEN {} ELSE {sched.req[1][1]})
       \cup {tasks[i].req[1] : i \in 1..Len(tasks)}

\* C33: every request in the admission queue (and every request taken from
\* it) carries the id of a session in the session store, opened by the voter
\* the entry names; sessions are never deleted; so the queue processor never
\* drops a request for an unknown session, no vote thread ends with "Invalid
\* session", and an accepted request leaves the queue only to be requeued or
\* dispatched.
C33_QueuedSessionsKnown ==
    [][ /\ RequestSessions \subseteq DOMAIN active_sessions
        /\ \A e \in vote_queue : active_sessions[e[4][1]].id = e[2]
        /\ DOMAIN active_sessions \subseteq DOMAIN active_sessions'
        /\ \A sid \in DOMAIN active_sessions : active_sessions'[sid].id = active_sessions[sid].id
        /\ sched.pc = "lookup" /\ sched'.pc # "lookup" =>
              /\ sched'.pc = "guard"
              /\ sched'.req = sched.req
        /\ NumRequests' >= NumRequests
        /\ \A i \in 1..Len(tasks) :
              /\ tasks[i].voter_info # Nothing \/ tasks[i].pc = "lookup"
              /\ tasks[i].result # Some(Rejected("Invalid session"))
      ]_vars

\* a Vote call with the id of a session nobody opened was refused, after a
\* request of Alice was queued, looked up and dispatched
C33_Witness ==
    /\ Len(tasks) = 1
    /\ tasks[1].pc # "lookup"
    /\ vote_queue = {}
    /\ LastResponse = Some(Result(FALSE, "Invalid session"))
    /\ DOMAIN active_sessions = {SessionId(1, 0)}

----------------------------------------------------------------------------
(* C34 *)

\* every session names a voter of the registry db, by id and by name
SessionsRegistered(sessions, db) ==
    \A sid \in DOMAIN sessions :
       \E k \in 1..Len(db) : db[k].id = sessions[sid].id /\ db[k].name = sessions[sid].name

UniqueIds(db) == Cardinality({db[k].id : k \in 1..Len(db)}) = Len(db)

\* C34: every session refers to an id and a name that are in the voter
\* registry, in the state where it is opened and in every later state, also
\* across the rollback of a registration (no session names the record a
\* Register call has appended and may still remove); hence no vote thread
\* ends with "Voter not found"; the ids of the registry are pairwise
\* different.
C34_SessionsStayRegistered ==
    [][ /\ SessionsRegistered(active_sessions, voters_db)
        /\ SessionsRegistered(active_sessions, voters_db')
        /\ SessionsRegistered(active_sessions', voters_db')
        /\ rpc.pc = "reg_repl" =>
              \A sid \in DOMAIN active_sessions : active_sessions[sid].id # rpc.local[1].id
        /\ \A i \in 1..Len(tasks') : tasks'[i].result # Some(Rejected("Voter not found"))
        /\ UniqueIds(voters_db) /\ UniqueIds(voters_db')
      ]_vars

\* Zoe registered and logged in; the registration of Yan failed afterwards and
\* was rolled back while her session was open, and she is still the last voter
\* of the registry
C34_Witness ==
    /\ LastResponse = Some([success |-> FALSE,
                            message |-> "Registration failed due to replication error"])
    /\ SessionId(Len(InitialVoters) + 1, 0) \in DOMAIN active_sessions
    /\ active_sessions[SessionId(Len(InitialVoters) + 1, 0)].name = "Zoe"
    /\ Len(voters_db) = Len(InitialVoters) + 1
    /\ voters_db[Len(voters_db)].name = "Zoe"

----------------------------------------------------------------------------
(* C35 *)

\* the vote threads between their increment and their decrement of active_votes
CountedTasks ==
    {i \in 1..Len(tasks) :
       tasks[i].pc \in {"mark", "chk_active", "chk_deadline", "clock", "db", "repl", "dec"}}

\* the voters with a dispatched and unfinished request: the voter the queue
\* processor has marked and is about to start a thread for, and the voters of
\* the threads that have not ended
OutstandingVoters ==
    (IF sched.pc = "start" THEN {sched.voter_id[1]} ELSE {})
       \cup {active_sessions[tasks[i].req[1]].id :
               i \in {j \in 1..Len(tasks) : tasks[j].pc # "done"}}

\* C35: in every reachable state 0 <= active_votes <= |in_progress_votes|;
\* active_votes is the number of vote threads between their increment and
\* their decrement; in_progress_votes is exactly the set of voters with a
\* dispatched and unfinished request; with no request outstanding the
\* counter is 0 and the set is empty.
C35_TaskAccounting ==
    /\ 0 <= active_votes
    /\ active_votes <= Cardinality(in_progress_votes)
    /\ active_votes = Cardinality(CountedTasks)
    /\ in_progress_votes = OutstandingVoters
    /\ (sched.pc # "start" /\ \A i \in 1..Len(tasks) : tasks[i].pc = "done")
          => (active_votes = 0 /\ in_progress_votes = {})

\* the vote threads of Alice and of Zoe are both counted and both voters are
\* marked; one of the threads replicates
C35_Witness ==
    /\ active_votes = 2
    /\ CountedTasks = {1, 2}
    /\ in_progress_votes = {1, Len(InitialVoters) + 1}
    /\ \E i \in 1..Len(tasks) : tasks[i].pc = "repl"

====
